---- MODULE Spec2Model ----
(***************************************************************************)
(* A model of the Coursify scrapers:                                       *)
(*   apps/scrapers/course-scraper.py  catalog scrape and batched upsert    *)
(*   apps/scrapers/rmp_scraper.py     course-code reconciler, professor     *)
(*                                    change detection, review scraping     *)
(* Strings whose characters matter (course codes, comments) are sequences   *)
(* of one-character strings; None is the value Null.                        *)
(***************************************************************************)
EXTENDS Integers, Sequences, FiniteSets, TLC

VARIABLES
    \* ---- course-scraper.py ----
    courses,            \* the store's courses table: course_code -> row | NoRow
    course_data,        \* the DataFrame scrape_all_course returned: rows <<index label, code>>
    existing_courses,   \* the snapshot upsert_course_data_to_supabase read at its start
    upsert_payload,     \* the batch being built
    batch_size,         \* the batch_size argument of the running call
    pos,                \* position of iterrows() in course_data (1-based)
    upserted,           \* every row the running call has sent to the store, in order
    cpc,                \* where the course script is: idle, scraped, upserting, done
    course_runs,        \* how many times the script has been started

    \* ---- rmp_scraper.py: clean_and_map_course_codes ----
    course_codes,       \* the raw strings, in the order the set enumerates them
    valid_courses,      \* the canonical course set
    course_mapping,     \* the returned mapping, or TypeError when the call raised
    mpc,                \* input, mapped

    \* ---- rmp_scraper.py: the professor pipeline ----
    site,               \* the RateMyProfessors site: the listing, each professor's page and menu
    professors,         \* the store's professors table: id -> row | NoProf
    rag_chunks,         \* the store's rag_chunks table, in insertion order
    observed,           \* what scrape_professors returned in this run
    previous_professors_dict,  \* the snapshot to_scrape_professor read
    professors_to_scrape,      \* what to_scrape_professor returned
    next_prof,          \* position of the main loop in professors_to_scrape
    call,               \* the last call of scrape_professor_comments
    rpc,                \* idle, scraping, finished, crashed
    rmp_runs,           \* how many times the script has been started

    \* ---- reddit_scraper.py ----
    comment_body,       \* the text the text functions are applied to
    extraction,         \* what the text functions returned for comment_body
    tpc,                \* input, extracted
    sentiment_score,    \* blob.sentiment.polarity, in hundredths
    sentiment_label,    \* the label each copy of detect_sentiment returned
    spc,                \* input, labelled
    feed,               \* subreddit.new(): the posts, newest first
    processed_posts_urls,  \* the snapshot scrape_and_store read at its start
    results,            \* the results list of the running call
    post_pos,           \* position of the post loop in feed
    dpc,                \* idle, scraping, done, crashed
    reddit_runs         \* how many times the reddit script has been started

courseVars == <<courses, course_data, existing_courses, upsert_payload, batch_size,
                pos, upserted, cpc, course_runs>>
mapVars == <<course_codes, valid_courses, course_mapping, mpc>>
rmpVars == <<site, professors, rag_chunks, observed, previous_professors_dict,
             professors_to_scrape, next_prof, call, rpc, rmp_runs>>
textVars == <<comment_body, extraction, tpc, sentiment_score, sentiment_label, spc>>
feedVars == <<feed, processed_posts_urls, results, post_pos, dpc, reddit_runs>>
redditVars == <<textVars, feedVars>>
vars == <<courseVars, mapVars, rmpVars, redditVars>>

Null == "null"

RECURSIVE SeqToSet(_)
SeqToSet(s) == IF s = <<>> THEN {} ELSE {Head(s)} \cup SeqToSet(Tail(s))

\* The function f, its values computed once instead of at every application.
Tabulated(f) == CHOOSE g \in {f} : g = f

\* All sequences over S of length at most n.
SeqsUpTo(S, n) == UNION {[1..k -> S] : k \in 0..n}

(***************************************************************************)
(* course-scraper.py                                                       *)
(***************************************************************************)

\* Bounds of the course model.
MaxRows == 3
MaxBatch == 2
MaxCourseRuns == 2

\* batch_size=50, the default of upsert_course_data_to_supabase.
DEFAULT_BATCH_SIZE == 50

CourseCodePool == {"CISC 121", "CISC 124"}
GpaPool == {"3.4"}
EnrollPool == {"120"}
NoRow == [absent |-> TRUE]

\* pd.concat(..., ignore_index=True) labels the scraped rows 0..n-1;
\* drop_duplicates(subset=["course_code"], inplace=True) keeps the first row of
\* each code and keeps the labels of the rows it keeps.
DropDuplicates(raw) ==
    LET keep == {i \in DOMAIN raw : \A j \in 1..(i - 1) : raw[j] # raw[i]}
        RECURSIVE build(_)
        build(i) == IF i > Len(raw) THEN <<>>
                    ELSE IF i \in keep
                         THEN <<[index |-> i - 1, course_code |-> raw[i]]>> \o build(i + 1)
                         ELSE build(i + 1)
    IN build(1)

\* The existing_courses dict: only the stored courses are keys.
SnapshotOf(table) ==
    [c \in {d \in DOMAIN table : ~table[d].absent} |->
        [average_gpa |-> table[c].average_gpa,
         average_enrollment |-> table[c].average_enrollment]]

\* A payload row that forgets the snapshot: a faulty variant of PayloadOf.
PayloadOf_Fresh(row, snapshot) ==
    [course_code |-> row.course_code, course_name |-> "scraped",
     average_gpa |-> Null, average_enrollment |-> Null]

\* The dict appended to upsert_payload for one row.
PayloadOf(row, snapshot) ==
    LET code == row.course_code
        avg_gpa == IF code \in DOMAIN snapshot THEN snapshot[code].average_gpa ELSE Null
        avg_enroll == IF code \in DOMAIN snapshot
                      THEN snapshot[code].average_enrollment ELSE Null
    IN [course_code |-> code, course_name |-> "scraped",
        average_gpa |-> avg_gpa, average_enrollment |-> avg_enroll]

\* supabase.table("courses").upsert(payload, on_conflict=["course_code"]).
RECURSIVE StoreUpsert(_, _)
StoreUpsert(table, payload) ==
    IF payload = <<>> THEN table
    ELSE LET p == Head(payload)
         IN StoreUpsert([table EXCEPT ![p.course_code] =
                            [absent |-> FALSE, average_gpa |-> p.average_gpa,
                             average_enrollment |-> p.average_enrollment,
                             course_name |-> p.course_name]],
                        Tail(payload))

\* The flush test of the loop, for the row at position p.
FlushNow(payload, row, data, size) ==
    Len(payload) = size \/ row.index = Len(data) - 1

CourseInit ==
    /\ courses = [c \in CourseCodePool |-> NoRow]
    /\ course_data = <<>>
    /\ existing_courses = <<>>
    /\ upsert_payload = <<>>
    /\ batch_size = DEFAULT_BATCH_SIZE
    /\ pos = 1
    /\ upserted = <<>>
    /\ cpc = "idle"
    /\ course_runs = 0

\* scrape_all_course(): the rows the faculty pages gave, duplicates dropped.
ScrapeAllCourse ==
    /\ cpc \in {"idle", "done"}
    /\ course_runs < MaxCourseRuns
    /\ \E raw \in SeqsUpTo(CourseCodePool, MaxRows) :
          course_data' = DropDuplicates(raw)
    /\ course_runs' = course_runs + 1
    /\ cpc' = "scraped"
    /\ upsert_payload' = <<>>
    /\ upserted' = <<>>
    /\ pos' = 1
    /\ UNCHANGED <<courses, existing_courses, batch_size>>

\* upsert_course_data_to_supabase, up to the loop: the snapshot read.
UpsertSelect ==
    /\ cpc = "scraped"
    /\ \E size \in (1..MaxBatch) \cup {DEFAULT_BATCH_SIZE} : batch_size' = size
    /\ existing_courses' = SnapshotOf(courses)
    /\ cpc' = "upserting"
    /\ UNCHANGED <<courses, course_data, upsert_payload, pos, upserted, course_runs>>

\* One iteration of "for index, row in course_data.iterrows()".
UpsertRow ==
    /\ cpc = "upserting"
    /\ pos <= Len(course_data)
    /\ LET row == course_data[pos]
           payload == Append(upsert_payload, PayloadOf(row, existing_courses))
       IN IF FlushNow(payload, row, course_data, batch_size)
          THEN /\ courses' = StoreUpsert(courses, payload)
               /\ upserted' = upserted \o payload
               /\ upsert_payload' = <<>>
          ELSE /\ upsert_payload' = payload
               /\ UNCHANGED <<courses, upserted>>
    /\ pos' = pos + 1
    /\ UNCHANGED <<course_data, existing_courses, batch_size, cpc, course_runs>>

\* The loop has run out of rows: the function returns.
UpsertReturn ==
    /\ cpc = "upserting"
    /\ pos > Len(course_data)
    /\ cpc' = "done"
    /\ UNCHANGED <<courses, course_data, existing_courses, upsert_payload,
                   batch_size, pos, upserted, course_runs>>

\* The downstream analytics process, which owns average_gpa/average_enrollment.
AnalyticsWrite ==
    /\ \E c \in CourseCodePool, g \in GpaPool \cup {Null}, e \in EnrollPool \cup {Null} :
          /\ ~courses[c].absent
          /\ courses' = [courses EXCEPT ![c].average_gpa = g,
                                        ![c].average_enrollment = e]
    /\ UNCHANGED <<course_data, existing_courses, upsert_payload, batch_size,
                   pos, upserted, cpc, course_runs>>

(***************************************************************************)
(* Strings as sequences of characters                                      *)
(***************************************************************************)

Uppers == <<"A","B","C","D","E","F","G","H","I","J","K","L","M",
            "N","O","P","Q","R","S","T","U","V","W","X","Y","Z">>
Lowers == <<"a","b","c","d","e","f","g","h","i","j","k","l","m",
            "n","o","p","q","r","s","t","u","v","w","x","y","z">>
UpperSet == {Uppers[i] : i \in DOMAIN Uppers}
LowerSet == {Lowers[i] : i \in DOMAIN Lowers}
DigitSet == {"0","1","2","3","4","5","6","7","8","9"}
\* What str.strip() removes and the regex class \s matches.
Whitespace == {" ", "\t", "\n"}

\* str.upper() and str.lower(), one character.
ToUpper(c) == IF c \in LowerSet THEN Uppers[CHOOSE i \in DOMAIN Lowers : Lowers[i] = c] ELSE c
ToLower(c) == IF c \in UpperSet THEN Lowers[CHOOSE i \in DOMAIN Uppers : Uppers[i] = c] ELSE c
UpperStr(s) == [i \in DOMAIN s |-> ToUpper(s[i])]
LowerStr(s) == [i \in DOMAIN s |-> ToLower(s[i])]

\* str.strip(): leading and trailing whitespace removed.
Strip(s) ==
    LET ink == {i \in DOMAIN s : s[i] \notin Whitespace}
    IN IF ink = {} THEN <<>>
       ELSE LET lo == CHOOSE i \in ink : \A j \in ink : i <= j
                hi == CHOOSE i \in ink : \A j \in ink : j <= i
            IN SubSeq(s, lo, hi)

\* str.replace(" ", "").
IsNotSpace(c) == c # " "
RemoveSpaces(s) == SelectSeq(s, IsNotSpace)

\* s[a:b] with 0-based a and exclusive b, clipped to the string as Python does.
Slice(s, a, b) == SubSeq(s, a + 1, IF b > Len(s) THEN Len(s) ELSE b)

\* str.startswith.
StartsWith(s, p) == Len(p) <= Len(s) /\ SubSeq(s, 1, Len(p)) = p

\* The length of the longest prefix of s whose characters are all in S.
RunLen(s, S) ==
    LET stops == {i \in DOMAIN s : s[i] \notin S}
    IN IF stops = {} THEN Len(s)
       ELSE (CHOOSE i \in stops : \A j \in stops : i <= j) - 1

\* re.match(r"^[A-Z]+", s).group(0); the empty string when there is no match.
PrefixMatch(s) == SubSeq(s, 1, RunLen(s, UpperSet))

\* re.findall(r"\d+", s): the maximal digit runs, left to right.
RECURSIVE NumberParts(_)
NumberParts(s) ==
    IF s = <<>> THEN <<>>
    ELSE IF Head(s) \in DigitSet
         THEN LET n == RunLen(s, DigitSet)
              IN <<SubSeq(s, 1, n)>> \o NumberParts(SubSeq(s, n + 1, Len(s)))
         ELSE NumberParts(Tail(s))

\* str.isdigit() and str.isalpha() (both false for the empty string).
IsDigitStr(s) == s # <<>> /\ \A i \in DOMAIN s : s[i] \in DigitSet
IsAlphaStr(s) == s # <<>> /\ \A i \in DOMAIN s : s[i] \in UpperSet \cup LowerSet

\* A set as a sequence, in some fixed order.
RECURSIVE SetToSeq(_)
SetToSeq(S) == IF S = {} THEN <<>>
               ELSE LET x == CHOOSE y \in S : TRUE IN <<x>> \o SetToSeq(S \ {x})

(***************************************************************************)
(* rmp_scraper.py: clean_and_map_course_codes                              *)
(***************************************************************************)

\* raw_code.strip().replace(" ", "").upper()
Cleaned(raw_code) == UpperStr(RemoveSpaces(Strip(raw_code)))

\* f"{dept} {num}"
Candidate(dept, num) == dept \o <<" ">> \o num

\* One iteration of the derivation loop: d = [depts, nums, derived] are
\* valid_dept_codes, valid_num_codes and derived_valid_courses so far.
DeriveOne(d, raw_code, valid) ==
    LET cleaned == Cleaned(raw_code)
        prefix == PrefixMatch(cleaned)
        number_parts == NumberParts(cleaned)
        depts == IF prefix # <<>> /\ \E v \in valid : StartsWith(RemoveSpaces(v), prefix)
                 THEN d.depts \cup {prefix} ELSE d.depts
        nums3 == {SubSeq(number_parts[i], 1, 3) :
                     i \in {j \in DOMAIN number_parts : Len(number_parts[j]) >= 3}}
        hits == {<<dept, num>> \in depts \X nums3 : Candidate(dept, num) \in valid}
    IN [depts |-> depts,
        nums |-> d.nums \cup {h[2] : h \in hits},
        derived |-> d.derived \cup {Candidate(h[1], h[2]) : h \in hits}]

\* Step 1 over the raw strings in the order the set enumerates them.
RECURSIVE Derive(_, _, _)
Derive(d, codes, valid) ==
    IF codes = <<>> THEN d
    ELSE Derive(DeriveOne(d, Head(codes), valid), Tail(codes), valid)

DeriveAll(codes, valid) == Derive([depts |-> {}, nums |-> {}, derived |-> {}], codes, valid)

\* The candidates f"{dept} {num}" over valid_dept_codes that are derived.
DeptMatches(d, num) ==
    SelectSeq([i \in DOMAIN SetToSeq(d.depts) |-> Candidate(SetToSeq(d.depts)[i], num)],
              LAMBDA c : c \in d.derived)

\* The while loop of step 2: the suffix cut into 3-character chunks from idx.
RECURSIVE ChunkMatches(_, _, _)
ChunkMatches(d, suffix, idx) ==
    IF idx >= Len(suffix) THEN <<>>
    ELSE DeptMatches(d, Slice(suffix, idx, idx + 3)) \o ChunkMatches(d, suffix, idx + 3)

\* valid_courses_no_space[cleaned]
ExactCourse(cleaned, valid) ==
    CHOOSE v \in valid : UpperStr(RemoveSpaces(v)) = cleaned

\* A Python value that is a list or None.
NoneValue == [none |-> TRUE, list |-> <<>>]
ListValue(l) == [none |-> FALSE, list |-> l]

\* The value of matches when step 2 reaches "if len(matches) == 1".
Matches(d, raw_code, valid) ==
    LET cleaned == Cleaned(raw_code)
        prefix == PrefixMatch(cleaned)
        number_parts == NumberParts(cleaned)
    IN IF \E v \in valid : UpperStr(RemoveSpaces(v)) = cleaned
       THEN ListValue(<<ExactCourse(cleaned, valid)>>)
       ELSE IF prefix # <<>> /\ number_parts # <<>>
       THEN ListValue(ChunkMatches(d, SubSeq(cleaned, Len(prefix) + 1, Len(cleaned)), 0))
       ELSE IF IsDigitStr(cleaned) /\ Len(cleaned) = 3
       THEN (IF cleaned \in d.nums THEN ListValue(DeptMatches(d, cleaned)) ELSE NoneValue)
       ELSE NoneValue

\* len(matches) raises TypeError when matches is None.
LenRaises(matches) == matches.none

\* The entry stored for one raw string once len(matches) has been taken.
MappingEntry(matches) == IF Len(matches.list) = 1 THEN ListValue(matches.list) ELSE NoneValue

TypeError == [raised |-> TRUE, map |-> <<>>]

\* clean_and_map_course_codes(course_codes, valid_courses), the raw strings
\* enumerated in the order codes: the mapping, or TypeError.
clean_and_map_course_codes(codes, valid) ==
    LET d == DeriveAll(codes, valid)
        raws == SeqToSet(codes)
    IN IF \E r \in raws : LenRaises(Matches(d, r, valid))
       THEN TypeError
       ELSE [raised |-> FALSE,
             map |-> [r \in raws |-> MappingEntry(Matches(d, r, valid))]]

\* Bound: how many raw strings one call is given.
MaxRaw == 2

Code_CISC_121 == <<"C","I","S","C"," ","1","2","1">>
Code_CISC_124 == <<"C","I","S","C"," ","1","2","4">>
Code_ANAT_100 == <<"A","N","A","T"," ","1","0","0">>
CanonicalPool == {Code_CISC_121, Code_CISC_124, Code_ANAT_100}

Raw_CISC121124 == <<"C","I","S","C","1","2","1","1","2","4">>
Raw_CISC124 == <<"C","I","S","C","1","2","4">>
Raw_cisc_121 == <<"c","i","s","c"," ","1","2","1">>
Raw_CISC100 == <<"C","I","S","C","1","0","0">>
Raw_ANAT100 == <<"A","N","A","T","1","0","0">>
Raw_ANAT121 == <<"A","N","A","T","1","2","1">>
Raw_ANAT == <<"A","N","A","T">>
Raw_124 == <<"1","2","4">>
Raw_999 == <<"9","9","9">>
Raw_C12 == <<"C","-","1","2">>
RawPool == {Raw_CISC121124, Raw_CISC124, Raw_cisc_121, Raw_CISC100, Raw_ANAT100,
            Raw_ANAT121, Raw_ANAT, Raw_124, Raw_999, Raw_C12}

\* The enumerations of the sets of at most n raw strings.
Enumerations(S, n) ==
    {q \in SeqsUpTo(S, n) : \A i, j \in DOMAIN q : i # j => q[i] # q[j]}

NotMapped == [raised |-> FALSE, map |-> <<>>]

MapIdle ==
    /\ course_codes = <<>>
    /\ valid_courses = {}
    /\ course_mapping = NotMapped
    /\ mpc = "input"

MapInit ==
    /\ course_codes \in Enumerations(RawPool, MaxRaw)
    /\ valid_courses \in SUBSET CanonicalPool
    /\ course_mapping = NotMapped
    /\ mpc = "input"

\* One call of clean_and_map_course_codes on the drawn input.
CleanAndMap ==
    /\ mpc = "input"
    /\ course_mapping' = clean_and_map_course_codes(course_codes, valid_courses)
    /\ mpc' = "mapped"
    /\ UNCHANGED <<course_codes, valid_courses>>

(***************************************************************************)
(* rmp_scraper.py: the professor pipeline                                  *)
(***************************************************************************)

\* Bounds of the professor model.
MaxBlocks == 2
MaxClicks == 1
MaxListing == 2
MaxPosts == 2
MaxRmpRuns == 2

\* Dates are ISO strings in the code, compared as strings; here day numbers,
\* and NoDate is None.
NoDate == 0
DatePool == {1, 2}
RatingPool == {0, 1, 2}

\* len(comment) < 10 in is_valid_comment.
MIN_COMMENT_LENGTH == 10

GENERAL_COURSE == <<"g","e","n","e","r","a","l","_","c","o","u","r","s","e">>
GENERAL_PROF == "general_prof"

Text_Great == <<"G","r","e","a","t"," ","p","r","o","f","!">>
Text_GREAT == <<"G","R","E","A","T"," ","\n","p","r","o","f","!"," ">>
Text_great == <<"g","r","e","a","t"," ","p","r","o","f","!">>
Text_meh == <<"m","e","h">>
Text_Clear == <<"C","l","e","a","r"," ","l","e","c","t","u","r","e","s">>
CommentPool == {Text_Great, Text_GREAT, Text_meh, Text_Clear}

Header_CISC121 == <<"C","I","S","C","1","2","1">>
Header_CISC999 == <<"C","I","S","C","9","9","9">>
HeaderPool == {Header_CISC121, Header_CISC999}

Line_All == <<"A","l","l"," ","c","o","u","r","s","e","s">>
Line_CISC121 == <<"C","I","S","C","1","2","1"," ","(","2",")">>
Line_CISC999 == <<"C","I","S","C","9","9","9"," ","(","1",")">>
Line_ANAT == <<"A","N","A","T"," ","(","1",")">>
\* course_menu.text split by newlines: the course dropdown of a professor page.
MenuPool == {<<Line_All, Line_CISC121>>,
             <<Line_All, Line_CISC999, Line_CISC121>>,
             <<Line_All, Line_CISC121, Line_CISC999>>,
             <<Line_All, Line_ANAT>>}

\* The courses table as get_all_valid_courses reads it.
StoredCourseCodes == {Code_CISC_121, Code_CISC_124, GENERAL_COURSE}

\* get_all_valid_courses(supabase)
get_all_valid_courses == {c \in StoredCourseCodes : c # GENERAL_COURSE}

\* A review block of ul#ratingsList (the ads, which have no rating div, left out).
\* An element select_one looked for: absent (None), or present with its text.
NoElem == [absent |-> TRUE, text |-> <<>>]
Elem(text) == [absent |-> FALSE, text |-> text]

\* The texts of the rating elements.
Score_4_0 == <<"4",".","0">>
Score_3_5 == <<"3",".","5">>
Score_2_0 == <<"2",".","0">>
Score_NA == <<"N","/","A">>
Percent_80 == <<"8","0","%">>

\* A float or None; the value is kept in tenths.
NoneFloat == [none |-> TRUE, val |-> 0]
Float(tenths) == [none |-> FALSE, val |-> tenths]

\* float(text) on the texts "d...d" and "d...d.d": whether it returns, and the
\* value it returns, in tenths. Any other text of the pool raises ValueError.
DigitValue(c) == CHOOSE n \in 0..9 : <<"0","1","2","3","4","5","6","7","8","9">>[n + 1] = c
RECURSIVE DecimalValue(_)
DecimalValue(s) ==
    IF s = <<>> THEN 0
    ELSE 10 * DecimalValue(SubSeq(s, 1, Len(s) - 1)) + DigitValue(s[Len(s)])
IsFloatText(text) ==
    LET t == Strip(text)
        n == RunLen(t, DigitSet)
    IN /\ n >= 1
       /\ \/ n = Len(t)
          \/ Len(t) = n + 2 /\ t[n + 1] = "." /\ t[n + 2] \in DigitSet
FloatOf(text) ==
    LET t == Strip(text)
        n == RunLen(t, DigitSet)
    IN 10 * DecimalValue(SubSeq(t, 1, n)) + (IF n = Len(t) THEN 0 ELSE DigitValue(t[n + 2]))

\* safe_float(text)
safe_float(elem) ==
    IF elem.absent \/ ~IsFloatText(elem.text) THEN NoneFloat ELSE Float(FloatOf(elem.text))

\* The head of a professor's page: the text of the overall rating element and
\* the texts of the feedback numbers.
PageHead(rating, feedback_numbers) == [rating |-> rating, feedback_numbers |-> feedback_numbers]
DefaultHead == PageHead(Score_4_0, <<Percent_80, Score_3_5>>)

\* overall_rating and level_of_difficulty, with has_reviews true.
overall_rating(head) == safe_float(Elem(head.rating))
level_of_difficulty(head) ==
    IF Len(head.feedback_numbers) > 1 THEN safe_float(Elem(head.feedback_numbers[2]))
    ELSE NoneFloat

\* A review block; RatedBlock chooses its quality and difficulty elements.
RatedBlock(date, comment, header, quality_elem, difficulty_elem) ==
    [date |-> date, comment |-> comment, header |-> header,
     quality_elem |-> quality_elem, difficulty_elem |-> difficulty_elem]
Block(date, comment, header) ==
    RatedBlock(date, comment, header, Elem(Score_4_0), Elem(Score_3_5))
BlockPool ==
    {Block(d, Text_Great, Header_CISC121) : d \in DatePool}
    \cup {Block(d, Text_GREAT, Header_CISC999) : d \in DatePool}
    \cup {Block(2, Text_meh, Header_CISC121), Block(2, Text_Clear, Header_CISC121)}

\* The professors of the listing: id (the URL slug) and name.
NameOf == [p \in {"p1", "p2", "p3"} |->
              IF p = "p2" THEN "Bo Chen" ELSE "Ann Lee"]
ProfIds == DOMAIN NameOf
Card(id, n) == [id |-> id, name |-> NameOf[id], num_ratings |-> n]
CardPool == {Card(id, n) : id \in ProfIds, n \in RatingPool}

NoProf == [absent |-> TRUE, name |-> "", num_ratings |-> 0, latest_comment_date |-> NoDate]
ProfRow(name, n, d) ==
    [absent |-> FALSE, name |-> name, num_ratings |-> n, latest_comment_date |-> d]

\* is_valid_comment(comment)
is_valid_comment(comment) == ~(comment = <<>> \/ Len(comment) < MIN_COMMENT_LENGTH)

\* re.sub(r"\s+", " ", s): every run of whitespace becomes one space.
RECURSIVE CollapseWhitespace(_)
CollapseWhitespace(s) ==
    IF s = <<>> THEN <<>>
    ELSE IF Head(s) \in Whitespace
         THEN <<" ">> \o CollapseWhitespace(SubSeq(s, RunLen(s, Whitespace) + 1, Len(s)))
         ELSE <<Head(s)>> \o CollapseWhitespace(Tail(s))

\* normalize_comment(text)
normalize_comment(text) == CollapseWhitespace(LowerStr(Strip(text)))

\* re.sub(r"\(\d+\)", "", s)
RECURSIVE RemoveCounts(_)
RemoveCounts(s) ==
    IF s = <<>> THEN <<>>
    ELSE LET n == RunLen(Tail(s), DigitSet)
         IN IF Head(s) = "(" /\ n >= 1 /\ Len(s) >= n + 2 /\ s[n + 2] = ")"
            THEN RemoveCounts(SubSeq(s, n + 3, Len(s)))
            ELSE <<Head(s)>> \o RemoveCounts(Tail(s))

\* The all_courses set built from the menu lines.
AllCourses(raw_courses) ==
    {c \in {Strip(RemoveCounts(raw_courses[i])) : i \in DOMAIN raw_courses} :
        c # <<>> /\ LowerStr(c) # LowerStr(Line_All)}

\* The loop variable course after "for course in raw_courses": its last value.
LastCourse(raw_courses) == raw_courses[Len(raw_courses)]

\* The first loop of scrape_professors: a card whose id was seen is dropped.
RECURSIVE DedupById(_, _)
DedupById(cards, seen_professor_ids) ==
    IF cards = <<>> THEN <<>>
    ELSE IF Head(cards).id \in seen_professor_ids
         THEN DedupById(Tail(cards), seen_professor_ids)
         ELSE <<Head(cards)>> \o DedupById(Tail(cards), seen_professor_ids \cup {Head(cards).id})

\* {prof["name"]: prof for prof in professors}.values(): one professor per name,
\* at the place of the name's first professor, the value of its last.
UniqueByName(profs) ==
    LET first == {i \in DOMAIN profs : \A j \in 1..(i - 1) : profs[j].name # profs[i].name}
        last(n) == CHOOSE i \in DOMAIN profs :
                      /\ profs[i].name = n
                      /\ \A j \in DOMAIN profs : profs[j].name = n => j <= i
        RECURSIVE build(_)
        build(i) == IF i > Len(profs) THEN <<>>
                    ELSE IF i \in first
                         THEN <<profs[last(profs[i].name)]>> \o build(i + 1)
                         ELSE build(i + 1)
    IN build(1)

\* scrape_professors(supabase, testing=False) on the cards of the listing.
scrape_professors(cards) == UniqueByName(DedupById(cards, {}))

\* previous_professors_dict: name -> (num_ratings, latest_comment_date). The rows
\* come back in an order the store chooses, and the last row of a name wins.
SnapshotChoices(table) ==
    LET rows == {table[id] : id \in {i \in DOMAIN table : ~table[i].absent}}
        named == {r \in rows : r.name # GENERAL_PROF}
        names == {r.name : r \in named}
    IN {f \in [names -> {[num_ratings |-> r.num_ratings,
                          latest_comment_date |-> r.latest_comment_date] : r \in named}] :
           \A n \in names : \E r \in named :
               /\ r.name = n
               /\ f[n] = [num_ratings |-> r.num_ratings,
                          latest_comment_date |-> r.latest_comment_date]}

WithDate(prof, d) ==
    [id |-> prof.id, name |-> prof.name, num_ratings |-> prof.num_ratings,
     latest_comment_date |-> d]

\* The change test dropped: a faulty variant of NeedsScrape.
NeedsScrape_Always(prof, previous) == TRUE

\* The change test with > for !=: a faulty variant of NeedsScrape.
NeedsScrape_OnlyGrowth(prof, previous) ==
    IF prof.name \in DOMAIN previous
    THEN prof.num_ratings > previous[prof.name].num_ratings
    ELSE TRUE

\* Whether the loop of to_scrape_professor appends prof.
NeedsScrape(prof, previous) ==
    IF prof.name \in DOMAIN previous
    THEN prof.num_ratings # previous[prof.name].num_ratings
    ELSE TRUE

\* The loop of to_scrape_professor over the scraped professors.
RECURSIVE to_scrape_professor(_, _)
to_scrape_professor(previous, profs) ==
    IF profs = <<>> THEN <<>>
    ELSE LET prof == Head(profs)
             rest == to_scrape_professor(previous, Tail(profs))
         IN IF NeedsScrape(prof, previous)
            THEN <<WithDate(prof, IF prof.name \in DOMAIN previous
                                  THEN previous[prof.name].latest_comment_date
                                  ELSE NoDate)>> \o rest
            ELSE rest

\* The operators above, tabulated over the pools the model draws from.
CommentText == Tabulated([c \in CommentPool |-> Strip(c)])
NormalizedComment == Tabulated([c \in CommentPool |-> normalize_comment(Strip(c))])
StoredTextPool == {NormalizedComment[c] : c \in CommentPool} \cup {Text_great}
StoredText == Tabulated([t \in StoredTextPool |-> Strip(t)])
MenuCourses == Tabulated([menu \in MenuPool \cup {<<Line_All>>} |-> AllCourses(menu)])

\* existing_reviews_set: the (text, created_at) of the professor's stored chunks.
ExistingReviews(chunks, name) ==
    {<<StoredText[chunks[i].text], chunks[i].created_at>> :
        i \in {j \in DOMAIN chunks : chunks[j].professor_name = name}}

\* The watermark test with < for <=: a faulty variant of ReachedWatermark.
ReachedWatermark_Strict(date, latest_comment_date) ==
    latest_comment_date # NoDate /\ date < latest_comment_date

\* "if prof["latest_comment_date"] is not None: if date <= ...: stop_scraping".
ReachedWatermark(date, latest_comment_date) ==
    latest_comment_date # NoDate /\ date <= latest_comment_date

\* The duplicate test that forgets the stored reviews: a faulty variant of IsDuplicate.
IsDuplicate_SeenOnly(key, existing_reviews_set, seen_reviews_set) ==
    key \in seen_reviews_set

\* "(normalized_comment, date) in existing_reviews_set or ... in seen_reviews_set".
IsDuplicate(key, existing_reviews_set, seen_reviews_set) ==
    key \in existing_reviews_set \/ key \in seen_reviews_set

\* The state of the review loop: reviews, seen_reviews_set, stop_scraping, and
\* examined, the positions of the blocks that passed the watermark test (kept
\* for the claims; the code has no such variable).
EmptyScan == [reviews |-> <<>>, seen |-> {}, stop |-> FALSE, examined |-> {}]

\* The fallback dropped: a faulty variant of ReviewScore.
ReviewScore_NoFallback(elem, fallback) ==
    IF ~elem.absent THEN Float(FloatOf(elem.text)) ELSE NoneFloat

\* "if quality_elem: quality = float(quality_elem.text.strip()) else: quality =
\* overall_rating", and the same for difficulty.
ReviewScore(elem, fallback) ==
    IF ~elem.absent THEN Float(FloatOf(elem.text)) ELSE fallback

\* float(...) of a present element raises ValueError, which the except of the
\* loop body catches.
RaisesValueError(elem) == ~elem.absent /\ ~IsFloatText(elem.text)

\* The body of "for block in review_items" for the block at position i.
\* A header that is no key of course_code_mappings raises KeyError, which the
\* except of the body catches: the review is skipped.
ProcessBlock(acc, block, i, prof, mappings, existing, course, head) ==
    IF ReachedWatermark(block.date, prof.latest_comment_date)
    THEN [acc EXCEPT !.stop = TRUE]
    ELSE LET a1 == [acc EXCEPT !.examined = @ \cup {i}]
             comment == CommentText[block.comment]
             normalized_comment == NormalizedComment[block.comment]
             key == <<normalized_comment, block.date>>
         IN IF block.header \notin DOMAIN mappings THEN a1
            ELSE IF RaisesValueError(block.quality_elem) THEN a1
            ELSE IF RaisesValueError(block.difficulty_elem) THEN a1
            ELSE IF ~is_valid_comment(comment) THEN a1
            ELSE IF IsDuplicate(key, existing, acc.seen) THEN a1
            ELSE [a1 EXCEPT !.seen = @ \cup {key},
                            !.reviews = Append(@, [date |-> block.date,
                                                   quality |-> ReviewScore(block.quality_elem,
                                                                           overall_rating(head)),
                                                   difficulty |-> ReviewScore(block.difficulty_elem,
                                                                              level_of_difficulty(head)),
                                                   comment |-> normalized_comment,
                                                   course_code |-> course,
                                                   block |-> i])]

\* The for loop, from position i, left at the break.
RECURSIVE ForBlocks(_, _, _, _, _, _, _, _)
ForBlocks(acc, page, i, prof, mappings, existing, course, head) ==
    IF i > Len(page) \/ acc.stop THEN acc
    ELSE ForBlocks(ProcessBlock(acc, page[i], i, prof, mappings, existing, course, head),
                   page, i + 1, prof, mappings, existing, course, head)

\* The while loop: the soup is parsed once before it, so every pass walks the
\* same blocks; it ends at stop_scraping or when Load More Ratings is gone.
RECURSIVE WhileLoop(_, _, _, _, _, _, _, _)
WhileLoop(acc, page, clicks, prof, mappings, existing, course, head) ==
    LET a == ForBlocks(acc, page, 1, prof, mappings, existing, course, head)
    IN IF a.stop \/ clicks = 0 THEN a
       ELSE WhileLoop(a, page, clicks - 1, prof, mappings, existing, course, head)

\* The reviews of one call: none when has_reviews is false.
ScanReviews(prof, page, clicks, mappings, existing, course, head) ==
    IF prof.num_ratings > 0
    THEN WhileLoop(EmptyScan, page, clicks, prof, mappings, existing, course, head)
    ELSE EmptyScan

\* updated_prof["latest_comment_date"]: reviews[0]["date"], or None.
NewLatestDate(reviews) == IF Len(reviews) > 0 THEN reviews[1].date ELSE NoDate

\* supabase.table("professors").upsert(updated_prof, on_conflict=["id"])
UpsertProfessor(table, prof, reviews) ==
    [table EXCEPT ![prof.id] = ProfRow(prof.name, prof.num_ratings, NewLatestDate(reviews))]

\* comment_data_batch
CommentBatch(prof, reviews) ==
    [i \in DOMAIN reviews |->
        [text |-> reviews[i].comment, created_at |-> reviews[i].date,
         quality_rating |-> reviews[i].quality,
         difficulty_rating |-> reviews[i].difficulty,
         professor_name |-> prof.name, course_code |-> reviews[i].course_code,
         source |-> "ratemyprofessors"]]

\* The enumeration orders of a set.
Orderings(S) == {q \in [1..Cardinality(S) -> S] : \A i, j \in DOMAIN q : i # j => q[i] # q[j]}

\* course_code_mappings for each menu and each enumeration order of all_courses.
MenuMappings ==
    Tabulated([menu \in MenuPool \cup {<<Line_All>>} |->
                 [order \in Orderings(MenuCourses[menu]) |->
                     clean_and_map_course_codes(order, get_all_valid_courses)]])

NoCall == [id |-> "", name |-> "", watermark |-> NoDate, outcome |-> "none",
           mappings |-> <<>>, reviews |-> <<>>, examined |-> {}, stopped |-> FALSE]

CallOf(prof, outcome, mappings, scan) ==
    [id |-> prof.id, name |-> prof.name, watermark |-> prof.latest_comment_date,
     outcome |-> outcome, mappings |-> mappings, reviews |-> scan.reviews,
     examined |-> scan.examined, stopped |-> scan.stop]

NoSite == [listing |-> <<>>, pages |-> [p \in ProfIds |-> <<>>],
           menus |-> [p \in ProfIds |-> <<Line_All>>],
           heads |-> [p \in ProfIds |-> DefaultHead], posts |-> 0]

RmpIdle ==
    /\ site = NoSite
    /\ professors = [p \in ProfIds |-> NoProf]
    /\ rag_chunks = <<>>
    /\ observed = <<>>
    /\ previous_professors_dict = <<>>
    /\ professors_to_scrape = <<>>
    /\ next_prof = 1
    /\ call = NoCall
    /\ rpc = "idle"
    /\ rmp_runs = 0

\* __main__ up to the loop: scrape_professors, then to_scrape_professor.
RunStart ==
    /\ rpc \in {"idle", "finished", "crashed"}
    /\ rmp_runs < MaxRmpRuns
    /\ \E previous \in SnapshotChoices(professors) :
          LET profs == scrape_professors(site.listing)
              todo == to_scrape_professor(previous, profs)
          IN /\ observed' = profs
             /\ previous_professors_dict' = previous
             /\ professors_to_scrape' = todo
             /\ rpc' = IF todo = <<>> THEN "finished" ELSE "scraping"
    /\ next_prof' = 1
    /\ rmp_runs' = rmp_runs + 1
    /\ call' = NoCall
    /\ UNCHANGED <<site, professors, rag_chunks>>

\* The professor the main loop is at.
CurrentProf == professors_to_scrape[next_prof]

\* The main loop goes on to the next professor, or prints "Scraping complete".
LoopOn ==
    /\ next_prof' = next_prof + 1
    /\ rpc' = IF next_prof + 1 > Len(professors_to_scrape) THEN "finished" ELSE "scraping"
    /\ UNCHANGED <<site, observed, previous_professors_dict, professors_to_scrape, rmp_runs>>

\* An exception leaves scrape_professor_comments and ends the script.
Crash ==
    /\ rpc' = "crashed"
    /\ UNCHANGED <<site, observed, previous_professors_dict, professors_to_scrape,
                   next_prof, rmp_runs>>

\* scrape_professor_comments: driver.get times out, the call returns.
ScrapePageTimeout ==
    /\ rpc = "scraping"
    /\ call' = CallOf(CurrentProf, "page_timeout", <<>>, EmptyScan)
    /\ LoopOn
    /\ UNCHANGED <<professors, rag_chunks>>

\* scrape_professor_comments: the wait for the rating element times out, or a
\* store call before the first write raises; nothing catches it.
ScrapeRaisesEarly ==
    /\ rpc = "scraping"
    /\ \E why \in {"wait_timeout", "store_error"} :
          call' = CallOf(CurrentProf, why, <<>>, EmptyScan)
    /\ Crash
    /\ UNCHANGED <<professors, rag_chunks>>

\* scrape_professor_comments with the page fetched: the course mapping, the
\* review loop, the professor upsert and the review insert (which may raise).
ScrapeProfessorComments ==
    /\ rpc = "scraping"
    /\ LET prof == CurrentProf
           raw_courses == site.menus[prof.id]
           page == site.pages[prof.id]
           existing == ExistingReviews(rag_chunks, prof.name)
       IN \E order \in DOMAIN MenuMappings[raw_courses], clicks \in 0..MaxClicks,
             insert_ok \in BOOLEAN :
             LET course_code_mappings == MenuMappings[raw_courses][order]
                 scan == ScanReviews(prof, page, clicks, course_code_mappings.map,
                                     existing, LastCourse(raw_courses),
                                     site.heads[prof.id])
             IN IF course_code_mappings.raised
                THEN /\ call' = CallOf(prof, "type_error", <<>>, EmptyScan)
                     /\ Crash
                     /\ UNCHANGED <<professors, rag_chunks>>
                ELSE /\ professors' = UpsertProfessor(professors, prof, scan.reviews)
                     /\ IF scan.reviews = <<>> \/ insert_ok
                        THEN /\ rag_chunks' = rag_chunks \o CommentBatch(prof, scan.reviews)
                             /\ call' = CallOf(prof, "ok", course_code_mappings.map, scan)
                             /\ LoopOn
                        ELSE /\ rag_chunks' = rag_chunks
                             /\ call' = CallOf(prof, "insert_failed",
                                               course_code_mappings.map, scan)
                             /\ Crash

\* A student posts a review: it goes to the top of the professor's page and the
\* listing counts it.
PostReview ==
    /\ rpc \in {"idle", "finished", "crashed"}
    /\ site.posts < MaxPosts
    /\ \E i \in DOMAIN site.listing, b \in BlockPool :
          LET id == site.listing[i].id
          IN site' = [site EXCEPT !.pages[id] = <<b>> \o @,
                                  !.listing[i].num_ratings = @ + 1,
                                  !.posts = @ + 1]
    /\ UNCHANGED <<professors, rag_chunks, observed, previous_professors_dict,
                   professors_to_scrape, next_prof, call, rpc, rmp_runs>>

(***************************************************************************)
(* reddit_scraper.py: the text functions                                   *)
(***************************************************************************)

\* A Python value that is a str or None.
NoneStr == [none |-> TRUE, str |-> <<>>]
Str(s) == [none |-> FALSE, str |-> s]

\* The regex class \w, and \b before the character at position i (1-based;
\* i = Len(s) + 1 is the end of the string).
WordChars == UpperSet \cup LowerSet \cup DigitSet \cup {"_"}
IsWordAt(s, i) == i \in DOMAIN s /\ s[i] \in WordChars
Boundary(s, i) == IsWordAt(s, i - 1) # IsWordAt(s, i)

\* Whether the characters of s from position i on, n of them, are all in S.
AllIn(s, i, n, S) == i + n - 1 <= Len(s) /\ \A j \in i..(i + n - 1) : s[j] \in S

\* Whether w occurs in s at position i, and "w in s".
OccursAt(s, w, i) == i >= 1 /\ i + Len(w) - 1 <= Len(s) /\ SubSeq(s, i, i + Len(w) - 1) = w
Contains(s, w) == \E i \in 1..(Len(s) + 1) : OccursAt(s, w, i)

\* The least element of a non-empty set of positions.
Least(S) == CHOOSE i \in S : \A j \in S : i <= j

\* COURSE_CODE_REGEX = \b[A-Za-z]{4}\s?\d{3}\b tried at position i: the length
\* of the match, 0 when there is none.
CourseCodeMatchLen(s, i) ==
    IF ~(Boundary(s, i) /\ AllIn(s, i, 4, UpperSet \cup LowerSet)) THEN 0
    ELSE IF AllIn(s, i + 4, 1, Whitespace) /\ AllIn(s, i + 5, 3, DigitSet) /\ Boundary(s, i + 8)
    THEN 8
    ELSE IF AllIn(s, i + 4, 3, DigitSet) /\ Boundary(s, i + 7) THEN 7
    ELSE 0

\* COURSE_CODE_REGEX.search(s): group(0) of the leftmost match, or None.
COURSE_CODE_REGEX(s) ==
    LET starts == {i \in DOMAIN s : CourseCodeMatchLen(s, i) > 0}
    IN IF starts = {} THEN NoneStr
       ELSE LET i == Least(starts)
            IN Str(SubSeq(s, i, i + CourseCodeMatchLen(s, i) - 1))

\* re.sub(r"([A-Z]{4})(\d{3})", r"\1 \2", s)
RECURSIVE InsertSpace(_)
InsertSpace(s) ==
    IF s = <<>> THEN <<>>
    ELSE IF AllIn(s, 1, 4, UpperSet) /\ AllIn(s, 5, 3, DigitSet)
         THEN SubSeq(s, 1, 4) \o <<" ">> \o SubSeq(s, 5, 7) \o InsertSpace(SubSeq(s, 8, Len(s)))
         ELSE <<Head(s)>> \o InsertSpace(Tail(s))

\* The extraction without upper(): a faulty variant of
\* extract_course_code_from_comment.
extract_course_code_KeepCase(body) ==
    LET match == COURSE_CODE_REGEX(body)
    IN IF match.none THEN NoneStr
       ELSE Str(InsertSpace(RemoveSpaces(match.str)))

\* extract_course_code_from_comment(comment), on comment.body.
extract_course_code_from_comment(body) ==
    LET match == COURSE_CODE_REGEX(body)
    IN IF match.none THEN NoneStr
       ELSE Str(InsertSpace(UpperStr(RemoveSpaces(match.str))))

\* extract_course_code_from_post(post), on f"{post.title} {post.selftext}".
extract_course_code_from_post(full_text) ==
    LET match == COURSE_CODE_REGEX(full_text)
    IN IF match.none THEN NoneStr
       ELSE Str(InsertSpace(UpperStr(RemoveSpaces(match.str))))

Title_Prof == <<"P","r","o","f">>
Title_Dr == <<"D","r">>

\* [A-Z][a-z]+ at position i: the length of the longest match, 0 when none.
NameLen(s, i) ==
    IF AllIn(s, i, 1, UpperSet) /\ AllIn(s, i + 1, 1, LowerSet)
    THEN 1 + RunLen(SubSeq(s, i + 1, Len(s)), LowerSet)
    ELSE 0

\* \s+ at position i: the length of the longest match, 0 when none.
SpaceLen(s, i) == IF i > Len(s) THEN 0 ELSE RunLen(SubSeq(s, i, Len(s)), Whitespace)

\* PROF_NAME_REGEX = \b(?:Prof\.?|Dr\.?)\s+[A-Z][a-z]+\s+[A-Z][a-z]+\b tried at
\* position i: the length of the match, 0 when there is none. Every repetition
\* but the longest leaves a character its successor cannot match.
ProfNameMatchLen(s, i) ==
    LET title == IF OccursAt(s, Title_Prof, i) THEN 4
                 ELSE IF OccursAt(s, Title_Dr, i) THEN 2 ELSE 0
        dot == IF AllIn(s, i + title, 1, {"."}) THEN 1 ELSE 0
        a == i + title + dot
        sp1 == SpaceLen(s, a)
        first == NameLen(s, a + sp1)
        b == a + sp1 + first
        sp2 == SpaceLen(s, b)
        last == NameLen(s, b + sp2)
        end == b + sp2 + last
    IN IF /\ Boundary(s, i) /\ title > 0 /\ sp1 > 0 /\ first > 0 /\ sp2 > 0 /\ last > 0
          /\ Boundary(s, end)
       THEN end - i
       ELSE 0

\* PROF_NAME_REGEX.search(s): group(0) of the leftmost match, or None.
PROF_NAME_REGEX(s) ==
    LET starts == {i \in DOMAIN s : ProfNameMatchLen(s, i) > 0}
    IN IF starts = {} THEN NoneStr
       ELSE LET i == Least(starts)
            IN Str(SubSeq(s, i, i + ProfNameMatchLen(s, i) - 1))

\* extract_prof_name_from_comment(comment), on comment.body.
extract_prof_name_from_comment(body) == PROF_NAME_REGEX(body)

\* extract_prof_name_from_post(post), on f"{post.title} {post.selftext}".
extract_prof_name_from_post(full_text) == PROF_NAME_REGEX(full_text)

Word_not == <<"n","o","t">>

\* The alternatives of the two negation patterns of detect_tags.
NOT_EASY_WORDS ==
    {<<"e","a","s","y">>, <<"l","i","g","h","t">>,
     <<"b","i","r","d"," ","c","o","u","r","s","e">>,
     <<"s","t","r","a","i","g","h","t","f","o","r","w","a","r","d">>}
NOT_HARD_WORDS ==
    {<<"h","a","r","d">>, <<"t","o","u","g","h">>,
     <<"d","i","f","f","i","c","u","l","t">>,
     <<"c","h","a","l","l","e","n","g","i","n","g">>, <<"b","r","u","t","a","l">>,
     <<"i","n","t","e","n","s","e">>}

\* The keyword lists of detect_tags.
EASY_WORDS ==
    {<<"e","a","s","y">>, <<"l","i","g","h","t">>,
     <<"b","i","r","d"," ","c","o","u","r","s","e">>,
     <<"m","a","n","a","g","e","a","b","l","e">>,
     <<"s","t","r","a","i","g","h","t","f","o","r","w","a","r","d">>}
HARD_WORDS ==
    {<<"h","a","r","d">>, <<"t","o","u","g","h">>,
     <<"d","i","f","f","i","c","u","l","t">>,
     <<"c","h","a","l","l","e","n","g","i","n","g">>, <<"b","r","u","t","a","l">>,
     <<"i","n","t","e","n","s","e">>}
PROFESSOR_WORDS ==
    {<<"p","r","o","f","e","s","s","o","r">>, <<"l","e","c","t","u","r","e","r">>,
     <<"t","e","a","c","h","i","n","g">>, <<"i","n","s","t","r","u","c","t","o","r">>,
     <<"t","e","a","c","h","e","s">>, <<"t","a","u","g","h","t">>}
STRUCTURE_WORDS ==
    {<<"e","x","a","m">>, <<"m","i","d","t","e","r","m">>, <<"f","i","n","a","l">>,
     <<"a","s","s","i","g","n","m","e","n","t">>, <<"h","o","m","e","w","o","r","k">>,
     <<"r","e","a","d","i","n","g">>, <<"w","o","r","k","l","o","a","d">>,
     <<"l","a","b","s">>, <<"q","u","i","z","z","e","s">>,
     <<"g","r","o","u","p"," ","p","r","o","j","e","c","t">>}
TIPS_WORDS ==
    {<<"r","e","c","o","m","m","e","n","d">>, <<"t","i","p">>,
     <<"a","d","v","i","c","e">>, <<"s","u","g","g","e","s","t">>,
     <<"s","t","r","a","t","e","g","y">>, <<"r","e","s","o","u","r","c","e">>,
     <<"h","o","w"," ","t","o"," ","s","t","u","d","y">>}

\* re.search(r"not\s+(w1|w2|...)", body) for the alternatives in words.
Negated(body, words) ==
    \E i \in DOMAIN body :
        /\ OccursAt(body, Word_not, i)
        /\ SpaceLen(body, i + 3) > 0
        /\ \E w \in words : OccursAt(body, w, i + 3 + SpaceLen(body, i + 3))

\* any(word in body for word in words)
AnyIn(body, words) == \E w \in words : Contains(body, w)

\* detect_tags(text): the list of tags, in the order the tests append them.
detect_tags(text) ==
    LET body == LowerStr(text)
        is_not_easy == Negated(body, NOT_EASY_WORDS)
        is_not_hard == Negated(body, NOT_HARD_WORDS)
    IN (IF ~is_not_easy /\ AnyIn(body, EASY_WORDS) THEN <<"easy">> ELSE <<>>)
       \o (IF ~is_not_hard /\ AnyIn(body, HARD_WORDS) THEN <<"hard">> ELSE <<>>)
       \o (IF AnyIn(body, PROFESSOR_WORDS) THEN <<"professor_review">> ELSE <<>>)
       \o (IF AnyIn(body, STRUCTURE_WORDS) THEN <<"course_structure">> ELSE <<>>)
       \o (IF AnyIn(body, TIPS_WORDS) THEN <<"tips">> ELSE <<>>)

\* The inputs of the text functions. A course code in every case mix, written
\* with no, one or two spaces or a tab between letters and digits, inside a text.
Base_cisc == <<"c","i","s","c">>
Digits_124 == <<"1","2","4">>
CaseMasks == [1..4 -> BOOLEAN]
Cased(mask) == [k \in 1..4 |-> IF mask[k] THEN ToUpper(Base_cisc[k]) ELSE Base_cisc[k]]
Separators == {<<>>, <<" ">>, <<" ", " ">>, <<"\t">>}
Prefixes == {<<>>, <<"I"," ","t","o","o","k"," ">>}
Suffix_thenMATH121 == <<" ","t","h","e","n"," ","M","A","T","H"," ","1","2","1">>
Suffix_ormath121 == <<" ","o",
        "r"," ","m","a","t","h","1","2","1",".">>
Suffixes == {<<>>, Suffix_thenMATH121, Suffix_ormath121}
CodeText(prefix, mask, sep, suffix) == prefix \o Cased(mask) \o sep \o Digits_124 \o suffix
CodeTexts(seps) ==
    {CodeText(prefix, mask, sep, suffix) :
        prefix \in Prefixes, mask \in CaseMasks, sep \in seps, suffix \in Suffixes}

Text_NotEasy ==
    <<"T","h","i","s"," ","c","o","u","r","s","e"," ","(","C","I","S","C"," ","1","2","4",
        ")"," ","w","a","s"," ","N","O","T"," ","e","a","s","y"," ","b","u","t"," ","t",
        "h","e"," ","p","r","o","f",","," ","D","r","."," ","J","o","h","n"," ","S","m",
        "i","t","h",","," ","w","a","s"," ","g","r","e","a","t">>
Name_DrJohnSmith == <<"D","r","."," ","J","o","h","n"," ","S","m","i","t","h">>
Text_Taught == <<"P","r","o","f"," ","A","n","n"," ","L","e","e"," ","t","a","u","g","h",
        "t"," ","i","t",","," ","n","o","t"," ","h","a","r","d",","," ","e","x","a","m",
        "s"," ","w","e","r","e"," ","f","i","n","e">>
\* "not " followed by each keyword of the easy and hard lists, alone and inside
\* a sentence.
Word_notSpace == <<"n","o","t"," ">>
Text_ItWas == <<"I","t"," ","w","a","s"," ">>
Text_atAll == <<" ","a","t"," ","a","l","l">>
NegationTexts ==
    {Word_notSpace \o w : w \in EASY_WORDS \cup HARD_WORDS}
    \cup {Text_ItWas \o Word_notSpace \o w \o Text_atAll : w \in EASY_WORDS \cup HARD_WORDS}
TextPool == CodeTexts(Separators) \cup {Text_NotEasy, Text_Taught} \cup NegationTexts

NoExtraction ==
    [tags |-> <<>>, course_code |-> NoneStr, post_course_code |-> NoneStr,
     prof_name |-> NoneStr, post_prof_name |-> NoneStr]

\* detect_tags and the four extract_* functions applied to one text.
ExtractFromText ==
    /\ tpc = "input"
    /\ extraction' = [tags |-> detect_tags(comment_body),
                      course_code |-> extract_course_code_from_comment(comment_body),
                      post_course_code |-> extract_course_code_from_post(comment_body),
                      prof_name |-> extract_prof_name_from_comment(comment_body),
                      post_prof_name |-> extract_prof_name_from_post(comment_body)]
    /\ tpc' = "extracted"
    /\ UNCHANGED <<comment_body, sentiment_score, sentiment_label, spc>>

\* blob.sentiment.polarity is a float in [-1, 1]: here in hundredths.
ScoreScale == 100
ScorePool == (0 - ScoreScale)..ScoreScale

\* The label with >= for the first >: a faulty variant of detect_sentiment.
detect_sentiment_AtLeast(score) ==
    IF score >= 50 THEN "very positive"
    ELSE IF score > 20 THEN "positive"
    ELSE IF score < -50 THEN "very negative"
    ELSE IF score < -20 THEN "negative"
    ELSE "neutral"

\* detect_sentiment of reddit_scraper.py: the label for a polarity.
detect_sentiment(score) ==
    IF score > 50 THEN "very positive"
    ELSE IF score > 20 THEN "positive"
    ELSE IF score < -50 THEN "very negative"
    ELSE IF score < -20 THEN "negative"
    ELSE "neutral"

\* detect_sentiment of rmp_scraper.py: the label for a polarity.
rmp_detect_sentiment(score) ==
    IF score > 50 THEN "very positive"
    ELSE IF score > 20 THEN "positive"
    ELSE IF score < -50 THEN "very negative"
    ELSE IF score < -20 THEN "negative"
    ELSE "neutral"

NoLabel == [reddit |-> "", rmp |-> ""]

\* Both copies of detect_sentiment applied to one polarity.
DetectSentiment ==
    /\ spc = "input"
    /\ sentiment_label' = [reddit |-> detect_sentiment(sentiment_score),
                           rmp |-> rmp_detect_sentiment(sentiment_score)]
    /\ spc' = "labelled"
    /\ UNCHANGED <<comment_body, extraction, tpc, sentiment_score>>

TextIdle ==
    /\ comment_body = <<>>
    /\ extraction = NoExtraction
    /\ tpc = "input"
    /\ sentiment_score = 0
    /\ sentiment_label = NoLabel
    /\ spc = "input"

(***************************************************************************)
(* reddit_scraper.py: scrape_and_store                                     *)
(***************************************************************************)

\* Bounds of the reddit model.
MaxFeed == 2
MaxComments == 2
MaxRedditRuns == 2

\* The keyword list and the comparison strings of the two filters.
GENERAL_COURSE_KEYWORDS ==
    {<<"c","o","u","r","s","e","s">>, <<"c","o","u","r","s","e">>,
     <<"c","l","a","s","s","e","s">>, <<"e","l","e","c","t","i","v","e","s">>,
     <<"p","r","o","g","r","a","m"," ","r","e","q","u","i","r","e","m","e","n","t","s">>,
     <<"b","i","r","d"," ","c","o","u","r","s","e","s">>, <<"e","a","s","y"," ","A">>}
Text_deleted == <<"[","d","e","l","e","t","e","d","]">>
Text_removed == <<"[","r","e","m","o","v","e","d","]">>
MIN_POST_SCORE == 2
MIN_COMMENT_SCORE == 1
MIN_BODY_LENGTH == 15

\* f"{post.title} {post.selftext}"
FullText(post) == post.title \o <<" ">> \o post.selftext

\* is_post_of_interest(post)
is_post_of_interest(post) ==
    LET full_text == LowerStr(post.title) \o <<" ">> \o LowerStr(post.selftext)
    IN /\ post.is_self
       /\ ~post.over_18
       /\ Strip(post.selftext) # <<>>
       /\ (~COURSE_CODE_REGEX(full_text).none \/ AnyIn(full_text, GENERAL_COURSE_KEYWORDS))
       /\ ~post.locked
       /\ ~(post.score < MIN_POST_SCORE \/ post.num_comments = 0)

\* is_comment_of_interest(comment)
is_comment_of_interest(comment) ==
    LET stripped == Strip(comment.body)
    IN /\ stripped # <<>>
       /\ LowerStr(stripped) \notin {Text_deleted, Text_removed}
       /\ ~(comment.score < MIN_COMMENT_SCORE)
       /\ ~(Len(stripped) < MIN_BODY_LENGTH)

\* The courses and professors arguments, as __main__ reads them from the store.
GeneralProfText == <<"g","e","n","e","r","a","l","_","p","r","o","f">>
Name_AnnLee == <<"A","n","n"," ","L","e","e">>
Name_DrAnnLee == <<"D","r","."," ","A","n","n"," ","L","e","e">>
StoredProfessorNames == {Name_AnnLee, Name_DrAnnLee, GeneralProfText}
RedditCourses == {c \in StoredCourseCodes : c # GENERAL_COURSE}
RedditProfessors == {n \in StoredProfessorNames : n # GeneralProfText}

\* The comment_data dict as it is inserted.
RedditRow(post, comment, course_code, professor_name) ==
    [text |-> comment.body, source |-> "reddit", course_code |-> course_code,
     source_url |-> post.url, professor_name |-> professor_name,
     created_at |-> comment.created_utc]

\* The two insert branches at the end of the comment loop's body.
RowsFor(post, comment, temp_course_code, prof_name) ==
    (IF temp_course_code.none /\ ~prof_name.none
     THEN <<RedditRow(post, comment, GENERAL_COURSE, prof_name.str)>>
     ELSE <<>>)
    \o (IF ~temp_course_code.none /\ temp_course_code.str \in RedditCourses
        THEN <<RedditRow(post, comment, temp_course_code.str,
                         IF ~prof_name.none /\ prof_name.str \in RedditProfessors
                         THEN prof_name.str ELSE GeneralProfText)>>
        ELSE <<>>)

\* "for comment in post.comments", from position i: the rows inserted, in
\* order. prof_name is the variable of the post loop, which the body assigns.
RECURSIVE CommentRows(_, _, _, _)
CommentRows(post, i, course_code, prof_name) ==
    IF i > Len(post.comments) THEN <<>>
    ELSE LET comment == post.comments[i]
             temp_course_code == IF ~course_code.none THEN course_code
                                 ELSE extract_course_code_from_comment(comment.body)
             name == IF prof_name.none THEN extract_prof_name_from_comment(comment.body)
                     ELSE prof_name
         IN IF ~is_comment_of_interest(comment)
            THEN CommentRows(post, i + 1, course_code, prof_name)
            ELSE IF temp_course_code.none
            THEN CommentRows(post, i + 1, course_code, prof_name)
            ELSE RowsFor(post, comment, temp_course_code, name)
                 \o CommentRows(post, i + 1, course_code, name)

\* The body of "for post in subreddit.new(limit=1000)": the rows it inserts.
PostRows(post, processed) ==
    IF post.url \in processed THEN <<>>
    ELSE IF ~is_post_of_interest(post) THEN <<>>
    ELSE CommentRows(post, 1, extract_course_code_from_post(FullText(post)),
                     extract_prof_name_from_post(FullText(post)))

\* The posts and comments the model draws from.
Comment(text, score, day) == [body |-> text, score |-> score, created_utc |-> day]
Body_Lecturer == <<"D","r","."," ","J","o","h","n"," ","S","m","i","t","h"," ","i","s",
        " ","a"," ","g","r","e","a","t"," ","l","e","c","t","u","r","e","r">>
Body_Took121 == <<"T","o","o","k"," ","C","I","S","C"," ","1","2","1"," ","w","i","t","h",
        " ","D","r","."," ","A","n","n"," ","L","e","e",","," ","l","o","v","e","d"," ",
        "i","t">>
Body_Thanks == <<"T","h","a","n","k","s",","," ","t","h","i","s"," ","h","e","l","p","s",
        " ","a"," ","l","o","t","!">>
Body_lol == <<"l","o","l">>
CommentPool_Reddit ==
    {Comment(Body_Lecturer, 3, 1), Comment(Body_Took121, 2, 1), Comment(Body_Thanks, 1, 1),
     Comment(Body_Thanks, 0, 2), Comment(Body_lol, 5, 1), Comment(Text_deleted, 1, 1)}

Post(url, title, selftext, is_self, comments) ==
    [url |-> url, title |-> title, selftext |-> selftext, is_self |-> is_self,
     over_18 |-> FALSE, locked |-> FALSE, score |-> 2, num_comments |-> Len(comments),
     comments |-> comments]
Title_CISC124 == <<"c","i","s","c"," ","1","2","4"," ","t","h","o","u","g","h","t","s","?">>
Title_Which == <<"W","h","i","c","h"," ","c","o","u","r","s","e","s"," ","t","o"," ","t",
        "a","k","e">>
Title_Link == <<"C","I","S","C"," ","1","2","4"," ","s","y","l","l","a","b","u","s">>
Selftext_IsItOk == <<"I","s"," ","i","t"," ","o","k">>
Selftext_Advice == <<"L","o","o","k","i","n","g"," ","f","o","r"," ","a","d","v","i","c",
        "e">>
PostPool ==
    {Post("u1", Title_CISC124, Selftext_IsItOk, TRUE, k) :
        k \in SeqsUpTo(CommentPool_Reddit, MaxComments)}
    \cup {Post("u2", Title_Which, Selftext_Advice, TRUE, k) :
            k \in SeqsUpTo(CommentPool_Reddit, MaxComments)}
    \cup {Post("u3", Title_Link, <<>>, FALSE, <<Comment(Body_Took121, 2, 1)>>)}

\* The feeds: at most MaxFeed posts, no url twice.
FeedPool ==
    {f \in SeqsUpTo(PostPool, MaxFeed) : \A i, j \in DOMAIN f : i # j => f[i].url # f[j].url}

\* The rows of PostPool, computed once.
PostRowsFresh == Tabulated([post \in PostPool |-> PostRows(post, {})])

FeedIdle ==
    /\ feed = <<>>
    /\ processed_posts_urls = {}
    /\ results = <<>>
    /\ post_pos = 1
    /\ dpc = "idle"
    /\ reddit_runs = 0

RedditIdle == TextIdle /\ FeedIdle

\* scrape_and_store up to the post loop: the processed urls are read.
RedditStart ==
    /\ dpc \in {"idle", "done", "crashed"}
    /\ reddit_runs < MaxRedditRuns
    /\ processed_posts_urls' =
          {rag_chunks[i].source_url : i \in {j \in DOMAIN rag_chunks : rag_chunks[j].source = "reddit"}}
    /\ results' = <<>>
    /\ post_pos' = 1
    /\ dpc' = "scraping"
    /\ reddit_runs' = reddit_runs + 1
    /\ UNCHANGED <<feed, rag_chunks>>

\* One iteration of the post loop. Each insert may raise, which ends the
\* script with the rows inserted so far.
RedditPost ==
    /\ dpc = "scraping"
    /\ post_pos <= Len(feed)
    /\ LET post == feed[post_pos]
           rows == IF post.url \in processed_posts_urls THEN <<>> ELSE PostRowsFresh[post]
       IN \E n \in 0..Len(rows) :
             /\ rag_chunks' = rag_chunks \o SubSeq(rows, 1, n)
             /\ results' = results \o SubSeq(rows, 1, n)
             /\ dpc' = IF n < Len(rows) THEN "crashed" ELSE "scraping"
    /\ post_pos' = post_pos + 1
    /\ UNCHANGED <<feed, processed_posts_urls, reddit_runs>>

\* The post loop has run out of posts: scrape_and_store returns results.
RedditReturn ==
    /\ dpc = "scraping"
    /\ post_pos > Len(feed)
    /\ dpc' = "done"
    /\ UNCHANGED <<feed, processed_posts_urls, results, post_pos, reddit_runs, rag_chunks>>

(***************************************************************************)
(* Specifications                                                          *)
(***************************************************************************)

MapNext == CleanAndMap /\ UNCHANGED <<courseVars, rmpVars, redditVars>>

MapSpecInit == MapInit /\ CourseInit /\ RmpIdle /\ RedditIdle

\* clean_and_map_course_codes applied once to a drawn input.
SpecMap == MapSpecInit /\ [][MapNext]_vars

CourseNext ==
    \/ ScrapeAllCourse /\ UNCHANGED <<mapVars, rmpVars, redditVars>>
    \/ UpsertSelect /\ UNCHANGED <<mapVars, rmpVars, redditVars>>
    \/ UpsertRow /\ UNCHANGED <<mapVars, rmpVars, redditVars>>
    \/ UpsertReturn /\ UNCHANGED <<mapVars, rmpVars, redditVars>>
    \/ AnalyticsWrite /\ UNCHANGED <<mapVars, rmpVars, redditVars>>

CourseSpecInit == CourseInit /\ MapIdle /\ RmpIdle /\ RedditIdle

\* The course script, run repeatedly beside the analytics process.
SpecCourse == CourseSpecInit /\ [][CourseNext]_vars

\* The stored professors a run can find: any rows of the listing's professors.
StoredProfessorTables ==
    {t \in [ProfIds -> {NoProf} \cup {ProfRow(NameOf[p], n, d) :
                                        p \in ProfIds, n \in RatingPool, d \in {NoDate, 2}}] :
        \A p \in ProfIds : t[p].absent \/ t[p].name = NameOf[p]}

DetectInit ==
    /\ \E cards \in SeqsUpTo(CardPool, MaxListing) : site = [NoSite EXCEPT !.listing = cards]
    /\ professors \in StoredProfessorTables
    /\ rag_chunks = <<>>
    /\ observed = <<>>
    /\ previous_professors_dict = <<>>
    /\ professors_to_scrape = <<>>
    /\ next_prof = 1
    /\ call = NoCall
    /\ rpc = "idle"
    /\ rmp_runs = MaxRmpRuns - 1

DetectSpecInit == DetectInit /\ CourseInit /\ MapIdle /\ RedditIdle

DetectNext == RunStart /\ UNCHANGED <<courseVars, mapVars, redditVars>>

\* One run of change detection on a drawn listing and a drawn professors table.
SpecDetect == DetectSpecInit /\ [][DetectNext]_vars

\* The stored chunks a call can find: normalized texts, this professor's or not.
StoredChunk(text, d, name) ==
    [text |-> text, created_at |-> d, quality_rating |-> Float(40),
     difficulty_rating |-> Float(35), professor_name |-> name,
     course_code |-> GENERAL_COURSE, source |-> "ratemyprofessors"]
StoredChunkPool ==
    {StoredChunk(Text_great, 1, "Ann Lee"), StoredChunk(Text_great, 2, "Ann Lee"),
     StoredChunk(Text_great, 2, "Bo Chen")}

\* A call of scrape_professor_comments for professor p1, selected by change
\* detection, on a drawn page, menu and store.
ScrapeInit ==
    /\ \E n \in {0, 2}, page \in SeqsUpTo(BlockPool, MaxBlocks), menu \in MenuPool :
          /\ n = 0 => page = <<>>
          /\ site = [NoSite EXCEPT !.listing = <<Card("p1", n)>>,
                                   !.pages["p1"] = page, !.menus["p1"] = menu]
    /\ \E row \in {NoProf} \cup {ProfRow("Ann Lee", 1, d) : d \in {NoDate} \cup DatePool} :
          professors = [p \in ProfIds |-> IF p = "p1" THEN row ELSE NoProf]
    /\ \E stored \in SUBSET StoredChunkPool : rag_chunks = SetToSeq(stored)
    /\ observed = scrape_professors(site.listing)
    /\ previous_professors_dict \in SnapshotChoices(professors)
    /\ professors_to_scrape = to_scrape_professor(previous_professors_dict, observed)
    /\ next_prof = 1
    /\ call = NoCall
    /\ rpc = "scraping"
    /\ rmp_runs = 1

ScrapeSpecInit == ScrapeInit /\ CourseInit /\ MapIdle /\ RedditIdle

ScrapeNext ==
    \/ ScrapePageTimeout /\ UNCHANGED <<courseVars, mapVars, redditVars>>
    \/ ScrapeRaisesEarly /\ UNCHANGED <<courseVars, mapVars, redditVars>>
    \/ ScrapeProfessorComments /\ UNCHANGED <<courseVars, mapVars, redditVars>>

\* One call of scrape_professor_comments from a drawn state.
SpecScrape == ScrapeSpecInit /\ [][ScrapeNext]_vars

\* The pages whose blocks and head have or lack their rating elements.
ElemPool == {NoElem, Elem(Score_2_0), Elem(Score_NA)}
RatedBlockPool ==
    {RatedBlock(d, Text_Great, Header_CISC121, q, f) :
        d \in DatePool, q \in ElemPool, f \in {NoElem, Elem(Score_2_0)}}
HeadPool ==
    {PageHead(r, f) : r \in {Score_4_0, Score_NA},
                      f \in {<<>>, <<Percent_80>>, <<Percent_80, Score_3_5>>}}

\* A call of scrape_professor_comments for professor p1, new to the store, on
\* a drawn page and page head.
RatingsInit ==
    /\ \E page \in SeqsUpTo(RatedBlockPool, MaxBlocks), head \in HeadPool :
          site = [NoSite EXCEPT !.listing = <<Card("p1", 2)>>, !.pages["p1"] = page,
                                !.menus["p1"] = <<Line_All, Line_CISC121>>,
                                !.heads["p1"] = head]
    /\ professors = [p \in ProfIds |-> NoProf]
    /\ rag_chunks = <<>>
    /\ observed = scrape_professors(site.listing)
    /\ previous_professors_dict \in SnapshotChoices(professors)
    /\ professors_to_scrape = to_scrape_professor(previous_professors_dict, observed)
    /\ next_prof = 1
    /\ call = NoCall
    /\ rpc = "scraping"
    /\ rmp_runs = 1

RatingsSpecInit == RatingsInit /\ CourseInit /\ MapIdle /\ RedditIdle

\* One call of scrape_professor_comments on the rated pages.
SpecRatings == RatingsSpecInit /\ [][ScrapeNext]_vars

\* One run of the script on a listing of two professors, each with one review
\* on its page, and a drawn professors table.
RunInit ==
    /\ \E a, b \in CardPool :
          /\ a.id # b.id
          /\ site = [NoSite EXCEPT
                       !.listing = <<a, b>>,
                       !.pages = [p \in ProfIds |-> <<Block(2, Text_Great, Header_CISC121)>>],
                       !.menus = [p \in ProfIds |-> <<Line_All, Line_CISC121>>]]
    /\ professors \in StoredProfessorTables
    /\ rag_chunks = <<>>
    /\ observed = <<>>
    /\ previous_professors_dict = <<>>
    /\ professors_to_scrape = <<>>
    /\ next_prof = 1
    /\ call = NoCall
    /\ rpc = "idle"
    /\ rmp_runs = MaxRmpRuns - 1

RunSpecInit == RunInit /\ CourseInit /\ MapIdle /\ RedditIdle

RunNext ==
    \/ RunStart /\ UNCHANGED <<courseVars, mapVars, redditVars>>
    \/ ScrapePageTimeout /\ UNCHANGED <<courseVars, mapVars, redditVars>>
    \/ ScrapeRaisesEarly /\ UNCHANGED <<courseVars, mapVars, redditVars>>
    \/ ScrapeProfessorComments /\ UNCHANGED <<courseVars, mapVars, redditVars>>

SpecRun == RunSpecInit /\ [][RunNext]_vars

\* The script run repeatedly, from an empty store, while students post reviews.
RmpInit ==
    /\ \E menu \in MenuPool :
          site = [NoSite EXCEPT !.listing = <<Card("p1", 0)>>, !.menus["p1"] = menu]
    /\ professors = [p \in ProfIds |-> NoProf]
    /\ rag_chunks = <<>>
    /\ observed = <<>>
    /\ previous_professors_dict = <<>>
    /\ professors_to_scrape = <<>>
    /\ next_prof = 1
    /\ call = NoCall
    /\ rpc = "idle"
    /\ rmp_runs = 0

RmpSpecInit == RmpInit /\ CourseInit /\ MapIdle /\ RedditIdle

Next ==
    \/ PostReview /\ UNCHANGED <<courseVars, mapVars, redditVars>>
    \/ RunStart /\ UNCHANGED <<courseVars, mapVars, redditVars>>
    \/ ScrapePageTimeout /\ UNCHANGED <<courseVars, mapVars, redditVars>>
    \/ ScrapeRaisesEarly /\ UNCHANGED <<courseVars, mapVars, redditVars>>
    \/ ScrapeProfessorComments /\ UNCHANGED <<courseVars, mapVars, redditVars>>

Spec == RmpSpecInit /\ [][Next]_vars

\* A second call of clean_and_map_course_codes on the same two sets, in another
\* interpreter: the raw set is enumerated in an order of that interpreter's.
CleanAndMapAgain ==
    /\ mpc = "mapped"
    /\ \E order \in {q \in Enumerations(RawPool, MaxRaw) : SeqToSet(q) = SeqToSet(course_codes)} :
          /\ course_codes' = order
          /\ course_mapping' = clean_and_map_course_codes(order, valid_courses)
    /\ mpc' = "mapped_again"
    /\ UNCHANGED valid_courses

MapTwiceNext ==
    \/ CleanAndMap /\ UNCHANGED <<courseVars, rmpVars, redditVars>>
    \/ CleanAndMapAgain /\ UNCHANGED <<courseVars, rmpVars, redditVars>>

\* clean_and_map_course_codes applied twice to a drawn input.
SpecMapTwice == MapSpecInit /\ [][MapTwiceNext]_vars

TextInit ==
    /\ comment_body \in TextPool
    /\ extraction = NoExtraction
    /\ tpc = "input"
    /\ sentiment_score = 0
    /\ sentiment_label = NoLabel
    /\ spc = "input"

TextSpecInit == TextInit /\ FeedIdle /\ CourseInit /\ MapIdle /\ RmpIdle

TextNext == ExtractFromText /\ UNCHANGED <<courseVars, mapVars, rmpVars, feedVars>>

\* The text functions applied once to a drawn text.
SpecText == TextSpecInit /\ [][TextNext]_vars

SentimentInit ==
    /\ comment_body = <<>>
    /\ extraction = NoExtraction
    /\ tpc = "input"
    /\ sentiment_score \in ScorePool
    /\ sentiment_label = NoLabel
    /\ spc = "input"

SentimentSpecInit == SentimentInit /\ FeedIdle /\ CourseInit /\ MapIdle /\ RmpIdle

SentimentNext == DetectSentiment /\ UNCHANGED <<courseVars, mapVars, rmpVars, feedVars>>

\* Both copies of detect_sentiment applied once to a drawn polarity.
SpecSentiment == SentimentSpecInit /\ [][SentimentNext]_vars

\* The reddit rows a run can find in the store.
StoredRedditRows ==
    {<<>>, <<RedditRow([url |-> "u1"], Comment(Body_Took121, 2, 1), Code_CISC_124,
                       GeneralProfText)>>}

rmpOtherVars == <<site, professors, observed, previous_professors_dict,
                  professors_to_scrape, next_prof, call, rpc, rmp_runs>>

RedditInit ==
    /\ feed \in FeedPool
    /\ processed_posts_urls = {}
    /\ results = <<>>
    /\ post_pos = 1
    /\ dpc = "idle"
    /\ reddit_runs = 0
    /\ rag_chunks \in StoredRedditRows
    /\ site = NoSite
    /\ professors = [p \in ProfIds |-> NoProf]
    /\ observed = <<>>
    /\ previous_professors_dict = <<>>
    /\ professors_to_scrape = <<>>
    /\ next_prof = 1
    /\ call = NoCall
    /\ rpc = "idle"
    /\ rmp_runs = 0

RedditSpecInit == RedditInit /\ TextIdle /\ CourseInit /\ MapIdle

RedditNext ==
    \/ RedditStart /\ UNCHANGED <<courseVars, mapVars, textVars, rmpOtherVars>>
    \/ RedditPost /\ UNCHANGED <<courseVars, mapVars, textVars, rmpOtherVars>>
    \/ RedditReturn /\ UNCHANGED <<courseVars, mapVars, textVars, rmpOtherVars>>

\* The reddit script run repeatedly on a drawn feed and store.
SpecReddit == RedditSpecInit /\ [][RedditNext]_vars

(***************************************************************************)
(* Claims about course-scraper.py                                          *)
(***************************************************************************)

\* Every payload row the running call has built, flushed or not.
BuiltPayloads == SeqToSet(upserted) \cup SeqToSet(upsert_payload)

\* C1: every payload row of upsert_course_data_to_supabase carries the
\* average_gpa and average_enrollment the snapshot read at the start of the call
\* holds for its course_code, and null for both when the code is not in the
\* snapshot.
C1_ProtectedFieldsFromSnapshot ==
    cpc \in {"upserting", "done"} =>
        \A p \in BuiltPayloads :
            IF p.course_code \in DOMAIN existing_courses
            THEN /\ p.average_gpa = existing_courses[p.course_code].average_gpa
                 /\ p.average_enrollment =
                        existing_courses[p.course_code].average_enrollment
            ELSE p.average_gpa = Null /\ p.average_enrollment = Null

\* C1 witness: a finished call sent an existing course with its stored
\* average_gpa 3.4, and a new course with null averages.
C1_Witness ==
    /\ cpc = "done"
    /\ \E p \in SeqToSet(upserted) :
          /\ p.course_code \in DOMAIN existing_courses
          /\ existing_courses[p.course_code].average_gpa = "3.4"
          /\ p.average_gpa = "3.4"
    /\ \E q \in SeqToSet(upserted) :
          /\ q.course_code \notin DOMAIN existing_courses
          /\ q.average_gpa = Null

\* C2: when upsert_course_data_to_supabase returns, every row of the scraped
\* table has been sent to the store exactly once.
C2_EveryRowSentOnce ==
    cpc = "done" =>
        /\ Len(upserted) = Len(course_data)
        /\ \A i \in DOMAIN course_data :
              Cardinality({j \in DOMAIN upserted :
                  upserted[j].course_code = course_data[i].course_code}) = 1

(***************************************************************************)
(* Claims about clean_and_map_course_codes                                 *)
(***************************************************************************)

\* C6: with canonical set {"CISC 121", "CISC 124"} and the single raw input
\* "CISC121124", the mapping pass finds two candidates for the raw string and
\* maps it to none.
C6_ConcatenatedLabelMapsToNone ==
    (/\ mpc = "mapped"
     /\ course_codes = <<Raw_CISC121124>>
     /\ valid_courses = {Code_CISC_121, Code_CISC_124}) =>
        /\ Len(Matches(DeriveAll(course_codes, valid_courses),
                       Raw_CISC121124, valid_courses).list) = 2
        /\ ~course_mapping.raised
        /\ course_mapping.map[Raw_CISC121124] = NoneValue

\* C7: clean_and_map_course_codes is total: every call returns a mapping with an
\* entry for each raw string, each entry a singleton list or none.
C7_MappingIsTotal ==
    mpc = "mapped" =>
        /\ ~course_mapping.raised
        /\ DOMAIN course_mapping.map = SeqToSet(course_codes)
        /\ \A r \in DOMAIN course_mapping.map :
              \/ course_mapping.map[r] = NoneValue
              \/ /\ ~course_mapping.map[r].none
                 /\ Len(course_mapping.map[r].list) = 1

(***************************************************************************)
(* Claims about to_scrape_professor                                        *)
(***************************************************************************)

\* The places of professor id in professors_to_scrape.
SelectedAt(id) == {i \in DOMAIN professors_to_scrape : professors_to_scrape[i].id = id}

\* C4: to_scrape_professor returns exactly the observed professors that are
\* absent from the snapshot (NEW, latest_comment_date null) or whose observed
\* num_ratings differs from the snapshot's (CHANGED, the snapshot's
\* latest_comment_date attached); an observed professor whose num_ratings
\* equals the snapshot's (UNCHANGED) is not returned.
C4_ExactlyNewAndChanged ==
    rpc \in {"scraping", "finished"} =>
        /\ \A i \in DOMAIN professors_to_scrape :
              \E j \in DOMAIN observed : observed[j].id = professors_to_scrape[i].id
        /\ \A j \in DOMAIN observed :
              LET prof == observed[j]
                  sel == SelectedAt(prof.id)
              IN IF prof.name \notin DOMAIN previous_professors_dict
                 THEN /\ Cardinality(sel) = 1
                      /\ \A i \in sel :
                            /\ professors_to_scrape[i].num_ratings = prof.num_ratings
                            /\ professors_to_scrape[i].latest_comment_date = NoDate
                 ELSE IF prof.num_ratings # previous_professors_dict[prof.name].num_ratings
                 THEN /\ Cardinality(sel) = 1
                      /\ \A i \in sel :
                            /\ professors_to_scrape[i].num_ratings = prof.num_ratings
                            /\ professors_to_scrape[i].latest_comment_date =
                                  previous_professors_dict[prof.name].latest_comment_date
                 ELSE sel = {}

\* C4 witness: a run observed two stored professors; the one whose num_ratings
\* fell below the stored value is returned with the stored date 2, the one
\* whose num_ratings equals the stored value is not returned.
C4_Witness ==
    /\ rpc = "scraping"
    /\ Len(observed) = 2
    /\ Len(professors_to_scrape) = 1
    /\ \E j, k \in DOMAIN observed :
          /\ observed[j].name \in DOMAIN previous_professors_dict
          /\ observed[k].name \in DOMAIN previous_professors_dict
          /\ observed[j].num_ratings < previous_professors_dict[observed[j].name].num_ratings
          /\ previous_professors_dict[observed[j].name].latest_comment_date = 2
          /\ professors_to_scrape[1].id = observed[j].id
          /\ professors_to_scrape[1].latest_comment_date = 2
          /\ observed[k].num_ratings = previous_professors_dict[observed[k].name].num_ratings
          /\ SelectedAt(observed[k].id) = {}

(***************************************************************************)
(* Claims about scrape_professor_comments                                  *)
(***************************************************************************)

\* The page the last call read.
CallPage == site.pages[call.id]

\* The places in rag_chunks of the chunks the last call inserted.
InsertedAt ==
    IF call.outcome = "ok"
    THEN (Len(rag_chunks) - Len(call.reviews) + 1)..Len(rag_chunks)
    ELSE {}

\* Two chunks of one professor with the same text and the same date.
SameReview(a, b) ==
    /\ a.professor_name = b.professor_name
    /\ a.text = b.text
    /\ a.created_at = b.created_at

\* C3: a call of scrape_professor_comments never inserts a chunk whose
\* (normalized text, date) is already stored for the professor or was inserted
\* earlier by the same call: a review scraped twice is stored once.
C3_NoDuplicateChunkInserted ==
    \A i \in InsertedAt : \A j \in DOMAIN rag_chunks :
        i # j => ~SameReview(rag_chunks[i], rag_chunks[j])

\* C3 witness: a finished call examined a review whose raw comment differs from
\* a stored chunk of the professor in case and whitespace only, with the same
\* date, and the store holds that review once.
C3_Witness ==
    /\ call.outcome = "ok"
    /\ \E i \in call.examined :
          LET b == CallPage[i]
              chunk == StoredChunk(NormalizedComment[b.comment], b.date, call.name)
          IN /\ b.header \in DOMAIN call.mappings
             /\ is_valid_comment(CommentText[b.comment])
             /\ CommentText[b.comment] # NormalizedComment[b.comment]
             /\ \E j \in DOMAIN rag_chunks : j \notin InsertedAt /\ rag_chunks[j] = chunk
             /\ Cardinality({j \in DOMAIN rag_chunks : SameReview(rag_chunks[j], chunk)}) = 1

\* The places of the page whose review is dated at or before the watermark.
AtOrBeforeWatermark ==
    {i \in DOMAIN CallPage : CallPage[i].date <= call.watermark}

\* C5: with a non-null latest_comment_date, scrape_professor_comments stops at
\* the first review of the page dated at or before it: no emitted review is
\* dated at or before the watermark, and no review at or after that first one
\* is processed or emitted.
C5_StopsAtWatermark ==
    (call.outcome \in {"ok", "insert_failed"} /\ call.watermark # NoDate) =>
        /\ \A k \in DOMAIN call.reviews : call.reviews[k].date > call.watermark
        /\ \A i \in AtOrBeforeWatermark :
              /\ \A j \in call.examined : j < i
              /\ \A k \in DOMAIN call.reviews : call.reviews[k].block < i

\* C5 witness: with watermark 1, a call emitted the first review of the page,
\* dated 2, stopped at the second, dated 1, and processed nothing else.
C5_Witness ==
    /\ call.outcome = "ok"
    /\ call.watermark = 1
    /\ Len(CallPage) = 2
    /\ CallPage[1].date = 2
    /\ CallPage[2].date = 1
    /\ call.stopped
    /\ call.examined = {1}
    /\ Len(call.reviews) = 1
    /\ call.reviews[1].block = 1

\* The course code the reconciler's mapping gives a review header.
MappedCourseCode(mappings, header) ==
    IF mappings[header].none THEN GENERAL_COURSE ELSE mappings[header].list[1]

\* C8: every chunk scrape_professor_comments inserts has the course_code its
\* review's header maps to in course_code_mappings, or general_course when the
\* mapping is none; never another string.
C8_CourseCodeIsMappedOrSentinel ==
    \A i \in InsertedAt :
        LET k == i - (Len(rag_chunks) - Len(call.reviews))
            header == CallPage[call.reviews[k].block].header
        IN rag_chunks[i].course_code = MappedCourseCode(call.mappings, header)

(***************************************************************************)
(* Claims about runs of the professor script                               *)
(***************************************************************************)

\* C9: when the review insert failed after the professor upsert, the next
\* run's change detection selects that professor again.
C9_FailedInsertIsRetried ==
    [][(call.outcome = "insert_failed" /\ rmp_runs' = rmp_runs + 1) =>
          \E i \in DOMAIN professors_to_scrape' : professors_to_scrape'[i].id = call.id]_vars

\* C10: a professor's stored latest_comment_date never moves backwards and is
\* never reset to null once set.
C10_WatermarkNeverRegresses ==
    [][\A p \in ProfIds :
          (~professors[p].absent /\ professors[p].latest_comment_date # NoDate) =>
              /\ ~professors'[p].absent
              /\ professors'[p].latest_comment_date # NoDate
              /\ professors'[p].latest_comment_date >= professors[p].latest_comment_date]_vars

(***************************************************************************)
(* Claims about the catalog upsert beside the analytics process            *)
(***************************************************************************)

\* C11: no step of upsert_course_data_to_supabase changes the stored
\* average_gpa or average_enrollment of an existing course, whenever the
\* analytics process wrote them, also between the snapshot read and the upsert.
C11_ScrapeNeverChangesAverages ==
    [][(cpc = "upserting" /\ pos' = pos + 1) =>
          \A c \in CourseCodePool :
              ~courses[c].absent =>
                  /\ courses'[c].average_gpa = courses[c].average_gpa
                  /\ courses'[c].average_enrollment = courses[c].average_enrollment]_vars

(***************************************************************************)
(* Claims about repeated reconciliation                                    *)
(***************************************************************************)

\* C14: when two calls of clean_and_map_course_codes on the same raw set and
\* the same canonical set both return, the second returns the mapping the
\* first returned, and the canonical set is left as it was.
C14_ReconcilerIsIdempotent ==
    [][(/\ mpc = "mapped" /\ mpc' = "mapped_again"
        /\ ~course_mapping.raised /\ ~course_mapping'.raised) =>
          /\ course_mapping' = course_mapping
          /\ valid_courses' = valid_courses]_vars

(***************************************************************************)
(* Claims about the text functions of reddit_scraper.py                    *)
(***************************************************************************)

\* C15: the sentiment label follows the threshold table: above 0.5 very
\* positive, above 0.2 up to 0.5 positive, from -0.2 to 0.2 neutral, from -0.5
\* to below -0.2 negative, below -0.5 very negative; both copies of
\* detect_sentiment give the same label.
C15_SentimentTable ==
    spc = "labelled" =>
        LET s == sentiment_score
            label == sentiment_label.reddit
        IN /\ (s > 50) => label = "very positive"
           /\ (20 < s /\ s <= 50) => label = "positive"
           /\ (-20 <= s /\ s <= 20) => label = "neutral"
           /\ (-50 <= s /\ s < -20) => label = "negative"
           /\ (s < -50) => label = "very negative"
           /\ sentiment_label.rmp = label

\* C15 witness: the polarity 0.5 was labelled positive by both copies.
C15_Witness ==
    /\ spc = "labelled"
    /\ sentiment_score = 50
    /\ sentiment_label = [reddit |-> "positive", rmp |-> "positive"]

\* C16: for the comment "This course (CISC 124) was NOT easy but the prof,
\* Dr. John Smith, was great" the tags include professor_review and not easy,
\* the course code is "CISC 124" and the professor is "Dr. John Smith".
C16_EndToEndExample ==
    (tpc = "extracted" /\ comment_body = Text_NotEasy) =>
        /\ "professor_review" \in SeqToSet(extraction.tags)
        /\ "easy" \notin SeqToSet(extraction.tags)
        /\ extraction.course_code = Str(Code_CISC_124)
        /\ extraction.prof_name = Str(Name_DrJohnSmith)

\* C17: four letters in any case followed by three digits, with no space or
\* one space between them, are extracted as the upper-case code with one
\* space, by both extract_course_code functions, and of several codes in a
\* text the first is returned.
C17_CourseCodeNormalized ==
    (tpc = "extracted" /\ comment_body \in CodeTexts({<<>>, <<" ">>})) =>
        /\ extraction.course_code = Str(Code_CISC_124)
        /\ extraction.post_course_code = Str(Code_CISC_124)

\* C17 witness: "cisc124 then MATH 121" gave "CISC 124".
C17_Witness ==
    /\ tpc = "extracted"
    /\ comment_body = CodeText(<<>>, [k \in 1..4 |-> FALSE], <<>>, Suffix_thenMATH121)
    /\ extraction.course_code = Str(Code_CISC_124)

(***************************************************************************)
(* Claims about scrape_and_store                                           *)
(***************************************************************************)

\* The places in feed of the posts the running call has taken up: each was not
\* yet processed and is a post of interest.
PostsTakenUp ==
    {i \in 1..(post_pos - 1) :
        feed[i].url \notin processed_posts_urls /\ is_post_of_interest(feed[i])}

\* C12: a comment of interest with no course code in the post or in the comment
\* but with a professor name in the post or in the comment is stored with
\* course_code general_course.
C12_ProfessorOnlyCommentIsStored ==
    dpc \in {"scraping", "done"} =>
        \A i \in PostsTakenUp : \A k \in DOMAIN feed[i].comments :
            LET post == feed[i]
                comment == post.comments[k]
                no_course == /\ extract_course_code_from_post(FullText(post)).none
                             /\ extract_course_code_from_comment(comment.body).none
                has_prof == \/ ~extract_prof_name_from_post(FullText(post)).none
                            \/ ~extract_prof_name_from_comment(comment.body).none
            IN (is_comment_of_interest(comment) /\ no_course /\ has_prof) =>
                  \E j \in DOMAIN rag_chunks :
                      /\ rag_chunks[j].source_url = post.url
                      /\ rag_chunks[j].text = comment.body
                      /\ rag_chunks[j].course_code = GENERAL_COURSE

\* C13: the store never holds two reddit chunks of one post with the same
\* normalized text and the same created_at date.
C13_NoDuplicateRedditChunk ==
    \A i, j \in DOMAIN rag_chunks :
        (/\ i # j
         /\ rag_chunks[i].source = "reddit" /\ rag_chunks[j].source = "reddit"
         /\ rag_chunks[i].source_url = rag_chunks[j].source_url
         /\ rag_chunks[i].created_at = rag_chunks[j].created_at) =>
            normalize_comment(rag_chunks[i].text) # normalize_comment(rag_chunks[j].text)

(***************************************************************************)
(* Claims about the stored text and the failures of one call               *)
(***************************************************************************)

\* The chunk the last call inserted for its k-th review.
ChunkOfReview(k) == rag_chunks[Len(rag_chunks) - Len(call.reviews) + k]

\* C18: the text of a chunk inserted by scrape_professor_comments keeps the case
\* of the scraped comment: it is the scraped comment, or the scraped comment
\* with its whitespace collapsed, never its lower-cased form.
C18_StoredTextKeepsCase ==
    call.outcome = "ok" =>
        \A k \in DOMAIN call.reviews :
            LET comment == CommentText[CallPage[call.reviews[k].block].comment]
            IN ChunkOfReview(k).text \in {comment, CollapseWhitespace(comment)}

\* C19: a call whose page load times out, or whose wait for the rating element
\* times out, writes nothing and the main loop goes on to the next professor.
C19_FetchFailureIsNotFatal ==
    [][(rpc = "scraping" /\ call'.outcome \in {"page_timeout", "wait_timeout"}) =>
          /\ professors' = professors
          /\ rag_chunks' = rag_chunks
          /\ rpc' # "crashed"
          /\ next_prof' = next_prof + 1]_vars

\* C20: a review block past the watermark test whose course header has no entry
\* in the mapping, and whose comment is valid, is not dropped: after the call
\* the store holds its review.
C20_AbsentFieldStillEmitted ==
    call.outcome = "ok" =>
        \A i \in call.examined :
            LET b == CallPage[i]
            IN (b.header \notin DOMAIN call.mappings /\ is_valid_comment(CommentText[b.comment])) =>
                  \E j \in DOMAIN rag_chunks :
                      /\ rag_chunks[j].professor_name = call.name
                      /\ rag_chunks[j].created_at = b.date
                      /\ rag_chunks[j].text \in
                            {CommentText[b.comment], NormalizedComment[b.comment]}

(***************************************************************************)
(* Claims about the ratings of a review                                    *)
(***************************************************************************)

\* The score a review is to carry: its own when its element is there, else the
\* professor-level value when that is a number, else none.
ExpectedScore(elem, professor_level_exists, professor_level_text) ==
    IF ~elem.absent THEN Float(FloatOf(elem.text))
    ELSE IF professor_level_exists THEN Float(FloatOf(professor_level_text))
    ELSE NoneFloat

\* C21: every review a call emits carries as quality its own quality score, or
\* without one the professor's overall rating, and as difficulty its own
\* difficulty score, or without one the professor's level of difficulty; a
\* rating is none only when neither exists.
C21_RatingFallback ==
    call.outcome = "ok" =>
        \A k \in DOMAIN call.reviews :
            LET b == CallPage[call.reviews[k].block]
                head == site.heads[call.id]
                numbers == head.feedback_numbers
            IN /\ ChunkOfReview(k).quality_rating =
                      ExpectedScore(b.quality_elem, IsFloatText(head.rating), head.rating)
               /\ ChunkOfReview(k).difficulty_rating =
                      ExpectedScore(b.difficulty_elem,
                                    Len(numbers) > 1 /\ IsFloatText(numbers[2]),
                                    numbers[2])

\* C21 witness: a call stored a review without a quality element, with the
\* overall rating as its quality, and one without a difficulty element, with
\* the level of difficulty as its difficulty.
C21_Witness ==
    /\ call.outcome = "ok"
    /\ \E k \in DOMAIN call.reviews :
          /\ CallPage[call.reviews[k].block].quality_elem.absent
          /\ CallPage[call.reviews[k].block].difficulty_elem.absent
          /\ ChunkOfReview(k).quality_rating = Float(40)
          /\ ChunkOfReview(k).difficulty_rating = Float(35)

(***************************************************************************)
(* Claims about a whole run of the professor scraper                       *)
(***************************************************************************)

\* The observed professors the snapshot holds with the observed num_ratings.
Unchanged ==
    {j \in DOMAIN observed :
        /\ observed[j].name \in DOMAIN previous_professors_dict
        /\ observed[j].num_ratings = previous_professors_dict[observed[j].name].num_ratings}

\* The chunks of a professor name, in store order.
ChunksOf(chunks, name) == SelectSeq(chunks, LAMBDA r : r.professor_name = name)

\* C22: no step of a run writes the professors row of an UNCHANGED professor or
\* a rag_chunks row for it.
C22_UnchangedCausesNoWrite ==
    [][rpc = "scraping" =>
          \A j \in Unchanged :
              /\ professors'[observed[j].id] = professors[observed[j].id]
              /\ ChunksOf(rag_chunks', observed[j].name) =
                    ChunksOf(rag_chunks, observed[j].name)]_vars

\* C22 witness: a run with an UNCHANGED professor, stored under its id, has
\* scraped another professor and stored a review for it.
C22_Witness ==
    /\ call.outcome = "ok"
    /\ Len(call.reviews) > 0
    /\ \E j \in Unchanged : ~professors[observed[j].id].absent /\ observed[j].id # call.id

(***************************************************************************)
(* Claims about the two passes of clean_and_map_course_codes               *)
(***************************************************************************)

\* C23: the result of clean_and_map_course_codes is the same for every order in
\* which the set of raw strings is enumerated.
C23_MappingIgnoresEnumerationOrder ==
    mpc = "mapped" =>
        \A order \in Enumerations(SeqToSet(course_codes), Len(course_codes)) :
            SeqToSet(order) = SeqToSet(course_codes) =>
                clean_and_map_course_codes(order, valid_courses) = course_mapping

\* The raw strings of the last call that have a letter prefix and digits and
\* are no exact match of a canonical code.
PrefixedRaws ==
    {r \in SeqToSet(course_codes) :
        /\ PrefixMatch(Cleaned(r)) # <<>>
        /\ NumberParts(Cleaned(r)) # <<>>
        /\ ~\E v \in valid_courses : UpperStr(RemoveSpaces(v)) = Cleaned(r)}

\* C24: a raw string with a letter prefix and digits that is no exact match is
\* mapped, if at all, to a code of its own letter prefix.
C24_MappedUnderOwnPrefix ==
    (mpc = "mapped" /\ ~course_mapping.raised) =>
        \A r \in PrefixedRaws :
            ~course_mapping.map[r].none =>
                PrefixMatch(course_mapping.map[r].list[1]) = PrefixMatch(Cleaned(r))

\* The number of candidates the mapping pass collects for a raw string.
CandidateCount(r) ==
    Len(Matches(DeriveAll(course_codes, valid_courses), r, valid_courses).list)

\* C25: every call maps a raw string with exactly one candidate to the list of
\* that candidate, a canonical code, and a raw string with no candidate or with
\* two or more to none.
C25_OnlyUniqueCandidateMaps ==
    mpc = "mapped" =>
        /\ ~course_mapping.raised
        /\ \A r \in SeqToSet(course_codes) :
              IF CandidateCount(r) = 1
              THEN /\ ~course_mapping.map[r].none
                   /\ Len(course_mapping.map[r].list) = 1
                   /\ course_mapping.map[r].list[1] \in valid_courses
              ELSE course_mapping.map[r] = NoneValue

(***************************************************************************)
(* Claims about detect_tags and the professor of a comment                 *)
(***************************************************************************)

TagNames == {"easy", "hard", "professor_review", "course_structure", "tips"}

\* Whether the text holds "not " immediately followed by a word of words.
HasNotBefore(text, words) == \E w \in words : Contains(LowerStr(text), Word_notSpace \o w)

\* C26: a text with "not " immediately before a keyword of the easy list does
\* not get the tag easy, and likewise for hard; the tags are among the five tag
\* names and none is repeated.
C26_NegationSuppressesTag ==
    tpc = "extracted" =>
        /\ HasNotBefore(comment_body, EASY_WORDS) => "easy" \notin SeqToSet(extraction.tags)
        /\ HasNotBefore(comment_body, HARD_WORDS) => "hard" \notin SeqToSet(extraction.tags)
        /\ SeqToSet(extraction.tags) \subseteq TagNames
        /\ Cardinality(SeqToSet(extraction.tags)) = Len(extraction.tags)

\* C27: a comment that names no professor, under a post that names none, is
\* stored with professor_name general_prof, whatever the comments before it
\* name.
C27_ProfessorNotCarriedOver ==
    dpc \in {"scraping", "done"} =>
        \A i \in PostsTakenUp : \A k \in DOMAIN feed[i].comments :
            LET post == feed[i]
                comment == post.comments[k]
            IN (/\ extract_prof_name_from_post(FullText(post)).none
                /\ extract_prof_name_from_comment(comment.body).none) =>
                  \A j \in DOMAIN rag_chunks :
                      (/\ rag_chunks[j].source_url = post.url
                       /\ rag_chunks[j].text = comment.body) =>
                          rag_chunks[j].professor_name = GeneralProfText

(***************************************************************************)
(* Claims about the re-scrape and the professors of one name               *)
(***************************************************************************)

\* Whether a page lists its reviews newest first.
NewestFirst(page) == \A i, j \in DOMAIN page : i < j => page[i].date >= page[j].date

\* C28: when a professor whose stored watermark is the date of a stored review
\* is re-scraped and the call returns, every valid review of its newest-first
\* page dated the day of the watermark or later, under a header the mapping
\* knows, is in the store.
C28_RescrapeIsComplete ==
    [][(/\ rpc = "scraping"
        /\ call'.outcome = "ok"
        /\ call'.watermark # NoDate
        /\ \E j \in DOMAIN rag_chunks :
              /\ rag_chunks[j].professor_name = call'.name
              /\ rag_chunks[j].created_at = call'.watermark
        /\ NewestFirst(site.pages[call'.id])) =>
          \A i \in DOMAIN site.pages[call'.id] :
              LET b == site.pages[call'.id][i]
              IN (/\ b.date >= call'.watermark
                  /\ is_valid_comment(CommentText[b.comment])
                  /\ b.header \in DOMAIN call'.mappings) =>
                    \E j \in DOMAIN rag_chunks' :
                        /\ rag_chunks'[j].professor_name = call'.name
                        /\ rag_chunks'[j].text = NormalizedComment[b.comment]
                        /\ rag_chunks'[j].created_at = b.date]_vars

\* The first card of the listing with the given id.
FirstCard(id) ==
    site.listing[CHOOSE i \in DOMAIN site.listing :
                    /\ site.listing[i].id = id
                    /\ \A j \in 1..(i - 1) : site.listing[j].id # id]

\* No two stored professors have the same name.
StoredNamesDiffer ==
    \A p, q \in ProfIds :
        (p # q /\ ~professors[p].absent /\ ~professors[q].absent) =>
            professors[p].name # professors[q].name

\* C29: with no name stored twice, every professor id of the listing is
\* retained by scrape_professors, also when another id of the listing has the
\* same name, and is returned by to_scrape_professor exactly when its own
\* stored row is absent or has another num_ratings.
C29_EveryIdIsEvaluated ==
    (rpc \in {"scraping", "finished"} /\ StoredNamesDiffer) =>
        \A id \in {site.listing[i].id : i \in DOMAIN site.listing} :
            /\ \E j \in DOMAIN observed : observed[j].id = id
            /\ SelectedAt(id) # {} <=>
                  \/ professors[id].absent
                  \/ professors[id].num_ratings # FirstCard(id).num_ratings

====
